---- MODULE Spec2Model ----
(***************************************************************************)
(* ddos-guardian: the request-admission engines.                           *)
(*                                                                         *)
(*   - IpTracker      sliding-window tracker with block timer              *)
(*   - RateLimiter    allow/deny lists, skip paths, key extraction         *)
(*   - Proxy          target pool, round-robin cursor, forwarding headers  *)
(*   - DockerDiscovery + the startServer refresh callback                  *)
(*                                                                         *)
(* Time is in milliseconds, as Date.now() reports it.                      *)
(***************************************************************************)
EXTENDS Integers, Sequences, FiniteSets, TLC

VARIABLES
    now,              \* Date.now()
    windowMs,         \* IpTracker.windowMs
    maxRequests,      \* IpTracker.maxRequests
    blockDurationMs,  \* IpTracker.blockDurationMs
    records,          \* IpTracker.records : Map<ip, IpRecord>
    hist,             \* per key, the results of its track calls so far
    last,             \* the last tracker/limiter operation and its result
    whitelist,        \* RateLimiter.whitelist : Set<ip>
    blacklist,        \* RateLimiter.blacklist : Set<ip>
    enabled,          \* RateLimiter.enabled
    trustProxy,       \* RateLimiter.trustProxy
    exReq,            \* a request handed to the key extractor and to buildHeaders
    exKey,            \* the key extractIp returned for exReq, once it has run
    exFwd,            \* the X-Forwarded-For buildHeaders set for exReq, once run
    manualHosts,      \* config.upstream.hosts
    upstreams,        \* DockerDiscovery.upstreams : Map<publicPort, upstream[]>
    currentUpstreams, \* the module-level currentUpstreams of the entry point
    targets,          \* Proxy.targets
    currentTarget,    \* Proxy.currentTarget
    refreshTimer,     \* DockerDiscovery.refreshTimer is set
    initialScan,      \* the initial scan of startAutoRefresh is in flight
    periodicScans,    \* the periodic scans finished so far
    alive,            \* the process has not been ended by an unhandled rejection
    published,        \* the last list the refresh callback published, if any
    lastScan,         \* the last finished scan and what it found in place
    fwdLog,           \* the requests that reached the forwarding step, in order
    lastReady,        \* the last answer of GET /ready, if any
    xfers,            \* per forwarded request, its exchange with the upstream
    botThreshold,     \* the configured BOT_SCORE_THRESHOLD
    botEnabled,       \* BotDetector.enabled
    patterns,         \* BotDetector.patterns : Map<ip, {requests, lastRequest}>
    botLast,          \* the last request analysed and the result it got
    pipe,             \* the request in handleRequest and how far it has come
    adminLast,        \* the last admin API request and the answer it got
    rep,              \* the IpReputation object: cache, quota, lookups in flight
    relay,            \* the responses written to clients for upstream answers
    refreshLoop       \* the discovery loop: stopped, and a scan still in flight

configVars == <<windowMs, maxRequests, blockDurationMs, enabled, trustProxy>>
listVars == <<whitelist, blacklist>>
extractVars == <<exReq, exKey, exFwd>>
proxyVars == <<manualHosts, upstreams, currentUpstreams, targets, currentTarget,
               refreshTimer, initialScan, periodicScans, alive, published,
               lastScan, fwdLog, lastReady>>
ioVars == <<xfers>>
botVars == <<botThreshold, botEnabled, patterns, botLast>>
pipeVars == <<pipe>>
adminVars == <<adminLast>>
repVars == <<rep>>
relayVars == <<relay>>
stopVars == <<refreshLoop>>
otherVars == <<ioVars, botVars, pipeVars, adminVars, repVars, relayVars, stopVars>>
outerVars == <<extractVars, proxyVars, otherVars>>
coreVars == <<now, records, hist, last, configVars, listVars, extractVars, proxyVars>>

vars == <<now, records, hist, last, configVars, listVars, extractVars, proxyVars,
          otherVars>>

-----------------------------------------------------------------------------
(* Bounds of the model *)

MaxTicks == 5
MaxMaxRequests == 2
MaxTracks == 4
MaxLimiterTicks == 2
MaxChecks == 2
MaxBlocks == 1
MaxScans == 2
MaxForwards == 4
MaxAnalyses == 1
MaxArrivals == 2
MaxAdminCalls == 2
MaxRepCalls == 2
MaxBotTicks == 1
MaxRelays == 2

(* Program constants *)

MinWindowMs == 1000
MinBlockDurationMs == 1000
MinMaxRequests == 1

TickMs == MinWindowMs \div 2
StartNow == 20 * TickMs

\* A string is a sequence of lexemes: an address, a separator, a path segment.
\* The empty sequence is the empty string.
Keys == {<<"1.2.3.4">>, <<"5.6.7.8">>}

Windows == {MinWindowMs, MinWindowMs + TickMs}
BlockDurations == {MinBlockDurationMs, MinBlockDurationMs + TickMs}
MaxRequestsChoices == MinMaxRequests..MaxMaxRequests

Max(a, b) == IF a >= b THEN a ELSE b

\* An optional value (a header, a property that may be undefined) is the
\* empty sequence when absent and a one-element sequence when present.
Absent == <<>>
Some(v) == <<v>>

\* JavaScript truthiness of an optional string: defined and not ""
Truthy(opt) == opt # Absent /\ opt[1] # <<>>

NoReq == [url |-> <<>>, xff |-> Absent, realIp |-> Absent,
          remoteAddress |-> Absent, ip |-> Absent]

-----------------------------------------------------------------------------
(* IpTracker *)

IpRecord ==
    [requests |-> <<>>, blocked |-> FALSE, blockedUntil |-> 0,
     totalRequests |-> 0, totalBlocks |-> 0]

NoResult ==
    [allowed |-> FALSE, blocked |-> FALSE, remaining |-> 0, resetMs |-> 0,
     totalRequests |-> 0, reason |-> "none"]

HasRecord(ip) == ip \in DOMAIN records

\* getRecord: the stored record, or a fresh one
getRecord(ip) == IF HasRecord(ip) THEN records[ip] ELSE IpRecord

StillBlockedLate(rec, t) == rec.blocked /\ t <= rec.blockedUntil

\* record.blocked && now < record.blockedUntil
StillBlocked(rec, t) == rec.blocked /\ t < rec.blockedUntil

\* the expired-block branch: blocked = false, blockedUntil = 0, requests = []
Expire(rec) ==
    IF rec.blocked
    THEN [rec EXCEPT !.blocked = FALSE, !.blockedUntil = 0, !.requests = <<>>]
    ELSE rec

InWindow(ts, t) == ts > t - windowMs

FilterWindowNothing(reqs, t) == reqs

\* record.requests.filter(ts => ts > windowStart)
FilterWindow(reqs, t) == SelectSeq(reqs, LAMBDA ts : InWindow(ts, t))

\* filter, push(now), totalRequests++
Pushed(rec, t) ==
    [rec EXCEPT !.requests = Append(FilterWindow(rec.requests, t), t),
                !.totalRequests = rec.totalRequests + 1]

OverLimitLoose(rec) == Len(rec.requests) > maxRequests + 1

\* record.requests.length > this.maxRequests
OverLimit(rec) == Len(rec.requests) > maxRequests

BlockedUntilShort(t) == t + blockDurationMs - TickMs

\* now + this.blockDurationMs
BlockedUntilOf(t) == t + blockDurationMs

TrackRecordUncounted(rec, t) ==
    IF StillBlocked(rec, t) THEN rec
    ELSE LET p == Pushed(Expire(rec), t) IN
         IF OverLimit(p)
         THEN [p EXCEPT !.blocked = TRUE, !.blockedUntil = BlockedUntilOf(t)]
         ELSE p

TrackRecordExtends(rec, t) ==
    IF StillBlocked(rec, t) THEN [rec EXCEPT !.blockedUntil = BlockedUntilOf(t)]
    ELSE LET p == Pushed(Expire(rec), t) IN
         IF OverLimit(p)
         THEN [p EXCEPT !.blocked = TRUE, !.blockedUntil = BlockedUntilOf(t),
                        !.totalBlocks = p.totalBlocks + 1]
         ELSE p

\* the record after track(ip) at instant t
TrackRecord(rec, t) ==
    IF StillBlocked(rec, t) THEN rec
    ELSE LET p == Pushed(Expire(rec), t) IN
         IF OverLimit(p)
         THEN [p EXCEPT !.blocked = TRUE, !.blockedUntil = BlockedUntilOf(t),
                        !.totalBlocks = p.totalBlocks + 1]
         ELSE p

\* the value track(ip) returns at instant t
TrackResult(rec, t) ==
    IF StillBlocked(rec, t)
    THEN [allowed |-> FALSE, blocked |-> TRUE, remaining |-> 0,
          resetMs |-> rec.blockedUntil - t,
          totalRequests |-> rec.totalRequests, reason |-> "blocked"]
    ELSE LET p == Pushed(Expire(rec), t) IN
         IF OverLimit(p)
         THEN [allowed |-> FALSE, blocked |-> TRUE, remaining |-> 0,
               resetMs |-> blockDurationMs,
               totalRequests |-> p.totalRequests,
               reason |-> "rate_limit_exceeded"]
         ELSE LET oldestRequest == p.requests[1]
                  resetMs == IF oldestRequest # 0
                             THEN (oldestRequest + windowMs) - t
                             ELSE windowMs
              IN [allowed |-> TRUE, blocked |-> FALSE,
                  remaining |-> maxRequests - Len(p.requests),
                  resetMs |-> Max(0, resetMs),
                  totalRequests |-> p.totalRequests, reason |-> "null"]

SetRecordShared(ip, rec) == [k \in (DOMAIN records) \cup {ip} |-> rec]

\* this.records.set(ip, record): the record of ip, the others as they are
SetRecord(ip, rec) ==
    [k \in (DOMAIN records) \cup {ip} |-> IF k = ip THEN rec ELSE records[k]]

\* what the operation just made was, on which key, what it returned, the
\* record it found (had = FALSE when the key had no record) and the lists it
\* found; the operation was made at the instant now, and a clock step forgets
\* it
LastOf(op, ip, res, req) ==
    [op |-> op, ip |-> ip, res |-> res,
     had |-> HasRecord(ip), pre |-> getRecord(ip), req |-> req,
     lists |-> [whitelist |-> whitelist, blacklist |-> blacklist]]

NoLast(op) ==
    [op |-> op, ip |-> <<>>, res |-> NoResult,
     had |-> FALSE, pre |-> IpRecord, req |-> NoReq,
     lists |-> [whitelist |-> {}, blacklist |-> {}]]

RECURSIVE SumLen(_, _)
SumLen(h, ks) ==
    IF ks = {} THEN 0
    ELSE LET k == CHOOSE x \in ks : TRUE IN Len(h[k]) + SumLen(h, ks \ {k})

\* the number of track calls made so far, over all keys
TotalTracks == SumLen(hist, Keys)

\* IpTracker.track(ip)
Track(ip) ==
    /\ TotalTracks < MaxTracks
    /\ records' = SetRecord(ip, TrackRecord(getRecord(ip), now))
    /\ hist' = [hist EXCEPT ![ip] =
                   Append(@, [t |-> now, had |-> HasRecord(ip),
                              res |-> TrackResult(getRecord(ip), now)])]
    /\ last' = LastOf("track", ip, TrackResult(getRecord(ip), now), NoReq)
    /\ UNCHANGED <<now, configVars, listVars, outerVars>>

\* record.requests.some(ts => ts > windowStart)
hasRecentRequests(rec, t) == \E i \in 1..Len(rec.requests) : InWindow(rec.requests[i], t)

KeepAlways(rec, t) == TRUE

KeepNever(rec, t) == FALSE

\* cleanup keeps a record that has recent requests or an active block
Keep(rec, t) == hasRecentRequests(rec, t) \/ StillBlocked(rec, t)

\* IpTracker.cleanup(), the janitor run by the cleanup timer
Cleanup ==
    /\ records' = [k \in {x \in DOMAIN records : Keep(records[x], now)} |-> records[k]]
    /\ last' = NoLast("cleanup")
    /\ UNCHANGED <<now, hist, configVars, listVars, outerVars>>

\* the clock advances, at most n steps past the start
Advance(n) ==
    /\ now + TickMs <= StartNow + n * TickMs
    /\ now' = now + TickMs
    /\ last' = NoLast("tick")
    /\ UNCHANGED <<records, hist, configVars, listVars, outerVars>>

Tick == Advance(MaxTicks)

-----------------------------------------------------------------------------
(* Components at rest: the values a component's variables keep in the       *)
(* specifications in which it does not act                                  *)

NoScan ==
    [outcome |-> "none", after |-> "none", upstreams |-> <<>>,
     currentUpstreams |-> <<>>, targets |-> <<>>]

ExtractIdle == exReq = NoReq /\ exKey = Absent /\ exFwd = Absent

ProxyIdle ==
    /\ manualHosts = <<>> /\ upstreams = <<>> /\ currentUpstreams = <<>>
    /\ targets = <<>> /\ currentTarget = 0
    /\ refreshTimer = FALSE /\ initialScan = FALSE /\ periodicScans = 0
    /\ alive = TRUE /\ published = Absent
    /\ lastScan = NoScan /\ fwdLog = <<>> /\ lastReady = Absent

TrackerIdle ==
    /\ now = StartNow
    /\ windowMs = MinWindowMs
    /\ maxRequests = MinMaxRequests
    /\ blockDurationMs = MinBlockDurationMs
    /\ records = <<>>
    /\ hist = [k \in Keys |-> <<>>]
    /\ last = NoLast("init")

ListsIdle == whitelist = {} /\ blacklist = {} /\ enabled = TRUE

\* the requests whose exchange with the upstream is followed
ReqIds == {"r1", "r2"}

NoXfer ==
    [phase |-> "none", destroyed |-> FALSE, hangUp |-> FALSE,
     headersSent |-> FALSE, responses |-> <<>>, events |-> <<>>]

IoIdle == xfers = [r \in ReqIds |-> NoXfer]

DefaultThreshold == 70

NoBotLast == [op |-> "none", n |-> 0]

BotIdle ==
    /\ botThreshold = DefaultThreshold
    /\ botEnabled = TRUE
    /\ patterns = <<>>
    /\ botLast = NoBotLast

NoPipe == [phase |-> "idle", n |-> 0]

PipeIdle == pipe = NoPipe

NoAdminLast == [op |-> "none", n |-> 0]

AdminIdle == adminLast = NoAdminLast

NoRep == [phase |-> "none"]

RepIdle == rep = NoRep

NoRelay == [stealth |-> TRUE, written |-> <<>>]

RelayIdle == relay = NoRelay
NoStop == [stopped |-> FALSE, scanning |-> FALSE]
StopIdle == refreshLoop = NoStop

OtherIdle == IoIdle /\ BotIdle /\ PipeIdle /\ AdminIdle /\ RepIdle /\ RelayIdle /\ StopIdle

-----------------------------------------------------------------------------

\* new IpTracker({windowMs, maxRequests, blockDurationMs})
InitTracker ==
    /\ now = StartNow
    /\ windowMs \in Windows
    /\ maxRequests \in MaxRequestsChoices
    /\ blockDurationMs \in BlockDurations
    /\ records = <<>>
    /\ hist = [k \in Keys |-> <<>>]
    /\ last = NoLast("init")

\* a limiter built with the defaults, used where only the tracker acts
InitTrackerOnly ==
    /\ InitTracker
    /\ ListsIdle /\ trustProxy = TRUE
    /\ ExtractIdle /\ ProxyIdle /\ OtherIdle

NextTracker ==
    \/ Tick
    \/ \E ip \in Keys : Track(ip)
    \/ Cleanup

SpecTracker == InitTrackerOnly /\ [][NextTracker]_vars

-----------------------------------------------------------------------------
(* Claims about the tracker alone: track calls, block expiries, janitor runs *)

\* the track calls of key k that returned allowed
AllowedIdx(k) == {i \in 1..Len(hist[k]) : hist[k][i].res.allowed}

\* the allowed calls of k in the half-open interval (t - windowMs, t]
AllowedInWindow(k, t) ==
    {j \in AllowedIdx(k) : hist[k][j].t > t - windowMs /\ hist[k][j].t <= t}

AtMostMaxPerWindow ==
    \A k \in Keys : \A i \in AllowedIdx(k) :
        Cardinality(AllowedInWindow(k, hist[k][i].t)) <= maxRequests

\* C1 as stated: for every configuration, in any interval of length window
\* at most max_requests track calls of a key return allowed.
C1_Original == AtMostMaxPerWindow

\* C1 amended: when block_duration >= window, in any half-open interval
\* (t - window, t] at most max_requests track calls of a key return allowed.
C1_WindowCap == (blockDurationMs >= windowMs) => AtMostMaxPerWindow

\* a key overflowed, its block expired and it was admitted again
C1_Witness ==
    /\ blockDurationMs >= windowMs
    /\ \E k \in Keys : \E i, j \in 1..Len(hist[k]) :
          /\ i < j
          /\ hist[k][i].res.reason = "rate_limit_exceeded"
          /\ hist[k][j].res.allowed
          /\ Cardinality(AllowedIdx(k)) > maxRequests

\* the runs of max_requests + 1 track calls of k that start on a key with no
\* record and fall inside one window
OverflowRuns(k) ==
    {s \in 1..Len(hist[k]) :
        /\ ~hist[k][s].had
        /\ s + maxRequests <= Len(hist[k])
        /\ hist[k][s + maxRequests].t - hist[k][s].t < windowMs}

\* C2: from a key with no record, of max_requests + 1 track calls inside one
\* window the first max_requests are allowed and the last is refused with
\* blocked, remaining 0, reason rate_limit_exceeded, reset = block_duration,
\* and it sets blocked_until = now + block_duration.
C2_OverflowBlocks ==
    \A k \in Keys : \A s \in OverflowRuns(k) :
        LET e == hist[k][s + maxRequests] IN
        /\ \A i \in s..(s + maxRequests - 1) : hist[k][i].res.allowed
        /\ ~e.res.allowed /\ e.res.blocked /\ e.res.remaining = 0
        /\ e.res.reason = "rate_limit_exceeded"
        /\ e.res.resetMs = blockDurationMs
        /\ (Len(hist[k]) = s + maxRequests /\ last.op = "track" /\ last.ip = k)
              => /\ records[k].blocked
                 /\ records[k].blockedUntil = e.t + blockDurationMs

\* the overflowing call has just returned, after a janitor run removed the
\* key's earlier record
C2_Witness ==
    \E k \in Keys : \E s \in OverflowRuns(k) :
        /\ Len(hist[k]) = s + maxRequests
        /\ last.op = "track" /\ last.ip = k
        /\ s > 1

\* C3: once a key is blocked until B, a track call at now < B is refused,
\* and a track call at now >= B (now = B included) clears blocked,
\* blocked_until and the timestamps and is allowed as the first request of a
\* fresh window, with remaining = max_requests - 1.
C3_BlockExpiry ==
    (last.op = "track" /\ last.had /\ last.pre.blocked) =>
        LET B == last.pre.blockedUntil
            rec == records[last.ip]
        IN IF now < B
           THEN /\ ~last.res.allowed /\ last.res.blocked
                /\ rec = last.pre
           ELSE /\ last.res.allowed /\ ~last.res.blocked
                /\ last.res.remaining = maxRequests - 1
                /\ ~rec.blocked /\ rec.blockedUntil = 0
                /\ rec.requests = <<now>>

\* a track call made exactly at blocked_until has been admitted
C3_Witness ==
    /\ last.op = "track" /\ last.had /\ last.pre.blocked
    /\ now = last.pre.blockedUntil
    /\ last.res.allowed

-----------------------------------------------------------------------------
(* Strings *)

RECURSIVE SplitFirst(_, _)
\* s.split(sep)[0]: the part of s before its first separator
SplitFirst(s, sep) ==
    IF s = <<>> \/ Head(s) = sep THEN <<>>
    ELSE <<Head(s)>> \o SplitFirst(Tail(s), sep)

RECURSIVE TrimLeft(_)
TrimLeft(s) == IF s # <<>> /\ Head(s) = " " THEN TrimLeft(Tail(s)) ELSE s

RECURSIVE TrimRight(_)
TrimRight(s) ==
    IF s # <<>> /\ s[Len(s)] = " " THEN TrimRight(SubSeq(s, 1, Len(s) - 1)) ELSE s

NoTrim(s) == s

\* s.trim()
Trim(s) == TrimRight(TrimLeft(s))

\* s.startsWith(p)
StartsWith(s, p) == Len(p) <= Len(s) /\ SubSeq(s, 1, Len(p)) = p

RECURSIVE SplitAll(_, _)
\* s.split(sep)
SplitAll(s, sep) ==
    IF \A i \in 1..Len(s) : s[i] # sep THEN <<s>>
    ELSE LET first == SplitFirst(s, sep)
         IN <<first>> \o SplitAll(SubSeq(s, Len(first) + 2, Len(s)), sep)

RECURSIVE Join(_)
\* the string a sequence of characters spells
Join(chars) == IF chars = <<>> THEN "" ELSE Head(chars) \o Join(Tail(chars))

-----------------------------------------------------------------------------
(* RateLimiter *)

ExtractIpAlwaysForwarded(req, trust) ==
    IF Truthy(req.xff) THEN Trim(SplitFirst(req.xff[1], ","))
    ELSE IF Truthy(req.realIp) THEN Trim(req.realIp[1])
    ELSE IF Truthy(req.remoteAddress) THEN req.remoteAddress[1]
    ELSE IF Truthy(req.ip) THEN req.ip[1]
    ELSE <<"unknown">>

\* extractIp(req, trustProxy).  req.connection is Node's alias of req.socket,
\* so its remoteAddress is the same optional value.
extractIp(req, trust) ==
    IF trust /\ Truthy(req.xff) THEN Trim(SplitFirst(req.xff[1], ","))
    ELSE IF trust /\ Truthy(req.realIp) THEN Trim(req.realIp[1])
    ELSE IF Truthy(req.remoteAddress) THEN req.remoteAddress[1]
    ELSE IF Truthy(req.ip) THEN req.ip[1]
    ELSE <<"unknown">>

\* getKey(req): no custom keyExtractor is configured
getKey(req) == extractIp(req, trustProxy)

\* skipPaths as startServer configures them
skipPaths == {<<"/health">>, <<"/ready">>, <<"/metrics">>, <<"/api", "/">>}

\* shouldSkip(req): the path before "?" starts with a skip prefix
shouldSkip(req) ==
    \E skip \in skipPaths : StartsWith(SplitFirst(req.url, "?"), skip)

Infinity == 1000000000

Allow(reason) ==
    [allowed |-> TRUE, blocked |-> FALSE, remaining |-> Infinity, resetMs |-> 0,
     totalRequests |-> 0, reason |-> reason]

Refuse(reason) ==
    [allowed |-> FALSE, blocked |-> TRUE, remaining |-> 0, resetMs |-> Infinity,
     totalRequests |-> 0, reason |-> reason]

CheckRuleDenyFirst(req) ==
    IF ~enabled THEN "disabled"
    ELSE IF shouldSkip(req) THEN "skipped"
    ELSE IF getKey(req) \in blacklist THEN "blacklisted"
    ELSE IF getKey(req) \in whitelist THEN "whitelisted"
    ELSE "track"

\* the first rule of check(req) that applies
CheckRule(req) ==
    IF ~enabled THEN "disabled"
    ELSE IF shouldSkip(req) THEN "skipped"
    ELSE IF getKey(req) \in whitelist THEN "whitelisted"
    ELSE IF getKey(req) \in blacklist THEN "blacklisted"
    ELSE "track"

\* the value check(req) returns (without its ip field, kept in last.ip)
CheckResult(req) ==
    LET rule == CheckRule(req) IN
    IF rule \in {"disabled", "skipped", "whitelisted"} THEN Allow(rule)
    ELSE IF rule = "blacklisted" THEN Refuse(rule)
    ELSE TrackResult(getRecord(getKey(req)), now)

\* the requests the limiter is driven with
Urls == {<<"/x">>, <<"/health">>}
LimiterRequests ==
    {r \in [url : Urls, xff : {Absent} \cup {Some(k) : k \in Keys},
             realIp : {Absent}, remoteAddress : {Some(k) : k \in Keys},
             ip : {Absent}] : r.xff # r.remoteAddress}

RECURSIVE SumBlocks(_, _)
SumBlocks(r, ks) ==
    IF ks = {} THEN 0
    ELSE LET k == CHOOSE x \in ks : TRUE IN r[k].totalBlocks + SumBlocks(r, ks \ {k})

RECURSIVE SumRequests(_, _)
SumRequests(r, ks) ==
    IF ks = {} THEN 0
    ELSE LET k == CHOOSE x \in ks : TRUE
         IN r[k].totalRequests + SumRequests(r, ks \ {k})

\* the requests counted by the records held now
TotalRequests == SumRequests(records, DOMAIN records)

\* the blocks counted by the records held now
TotalBlocks == SumBlocks(records, DOMAIN records)

CheckAlwaysTracks(req) ==
    LET ip == getKey(req) IN
    /\ CheckRule(req) = "track" => TotalRequests < MaxChecks
    /\ records' = SetRecord(ip, TrackRecord(getRecord(ip), now))
    /\ last' = LastOf("check", ip, CheckResult(req), req)
    /\ UNCHANGED <<now, hist, configVars, listVars, outerVars>>

\* RateLimiter.check(req)
Check(req) ==
    LET ip == getKey(req) IN
    /\ CheckRule(req) = "track" => TotalRequests < MaxChecks
    /\ records' = IF CheckRule(req) = "track"
                  THEN SetRecord(ip, TrackRecord(getRecord(ip), now))
                  ELSE records
    /\ last' = LastOf("check", ip, CheckResult(req), req)
    /\ UNCHANGED <<now, hist, configVars, listVars, outerVars>>

NoOpLast(op, ip) == LastOf(op, ip, NoResult, NoReq)

\* a list mutator was made: what it was, and the operation made before it
\* with the lists that one found
ListOpLast(op, ip) ==
    NoOpLast(op, ip)
    @@ [prev |-> [op |-> last.op, ip |-> last.ip, lists |-> last.lists]]

AddToWhitelistOnly(ip) ==
    /\ whitelist' = whitelist \cup {ip}
    /\ blacklist' = blacklist

\* addToWhitelist(ip): whitelist.add(ip); blacklist.delete(ip)
AddToWhitelistSets(ip) ==
    /\ whitelist' = whitelist \cup {ip}
    /\ blacklist' = blacklist \ {ip}

AddToWhitelist(ip) ==
    /\ AddToWhitelistSets(ip)
    /\ last' = ListOpLast("addToWhitelist", ip)
    /\ UNCHANGED <<now, records, hist, configVars, outerVars>>

DeletedNothing(set, ip) == set

\* Set.prototype.delete: set.delete(ip)
Deleted(set, ip) == set \ {ip}

\* removeFromWhitelist(ip): whitelist.delete(ip)
RemoveFromWhitelist(ip) ==
    /\ whitelist' = Deleted(whitelist, ip)
    /\ blacklist' = blacklist
    /\ last' = ListOpLast("removeFromWhitelist", ip)
    /\ UNCHANGED <<now, records, hist, configVars, outerVars>>

\* addToBlacklist(ip): blacklist.add(ip); whitelist.delete(ip)
AddToBlacklist(ip) ==
    /\ blacklist' = blacklist \cup {ip}
    /\ whitelist' = whitelist \ {ip}
    /\ last' = ListOpLast("addToBlacklist", ip)
    /\ UNCHANGED <<now, records, hist, configVars, outerVars>>

\* removeFromBlacklist(ip): blacklist.delete(ip)
RemoveFromBlacklist(ip) ==
    /\ blacklist' = Deleted(blacklist, ip)
    /\ whitelist' = whitelist
    /\ last' = ListOpLast("removeFromBlacklist", ip)
    /\ UNCHANGED <<now, records, hist, configVars, outerVars>>

\* IpTracker.block(ip, durationMs), reached through blockIp
Block(ip, durationMs) ==
    /\ records' = SetRecord(ip, [getRecord(ip) EXCEPT
                                    !.blocked = TRUE,
                                    !.blockedUntil = now + durationMs,
                                    !.totalBlocks = @ + 1])
    /\ last' = NoOpLast("block", ip)
    /\ UNCHANGED <<now, hist, configVars, listVars, outerVars>>

\* IpTracker.unblock(ip), reached through unblockIp
Unblock(ip) ==
    /\ records' = IF HasRecord(ip)
                  THEN SetRecord(ip, [records[ip] EXCEPT !.blocked = FALSE,
                                                         !.blockedUntil = 0])
                  ELSE records
    /\ last' = NoOpLast("unblock", ip)
    /\ UNCHANGED <<now, hist, configVars, listVars, outerVars>>

\* block() while the records held count fewer than MaxBlocks blocks
CappedBlock(ip, durationMs) == TotalBlocks < MaxBlocks /\ Block(ip, durationMs)

\* the durations block() is called with
BlockArgs == {TickMs, blockDurationMs}

\* new RateLimiter(options): the lists are copied from the options as given
Init ==
    /\ InitTracker
    /\ windowMs = MinWindowMs
    /\ blockDurationMs = MinBlockDurationMs
    /\ maxRequests = MinMaxRequests
    /\ whitelist \in SUBSET Keys
    /\ blacklist \in SUBSET Keys
    /\ enabled \in BOOLEAN
    /\ trustProxy \in BOOLEAN
    /\ ExtractIdle /\ ProxyIdle /\ OtherIdle

LimiterTick == Advance(MaxLimiterTicks)

Next ==
    \/ LimiterTick
    \/ \E req \in LimiterRequests : Check(req)
    \/ Cleanup
    \/ \E ip \in Keys : \E d \in BlockArgs : CappedBlock(ip, d)
    \/ \E ip \in Keys : Unblock(ip)

Spec == Init /\ [][Next]_vars

\* the admin operations on the lists, from any lists the limiter is built with
NextLists ==
    \/ \E ip \in Keys : AddToWhitelist(ip)
    \/ \E ip \in Keys : RemoveFromWhitelist(ip)
    \/ \E ip \in Keys : AddToBlacklist(ip)
    \/ \E ip \in Keys : RemoveFromBlacklist(ip)

SpecLists == Init /\ [][NextLists]_vars

-----------------------------------------------------------------------------
(* Key extraction and the headers sent upstream *)

\* The requests the extractor and the header builder are driven with.  A
\* header a client sends with an empty value is present and "".  A request
\* object may carry an ip property next to, or instead of, its socket.
ForwardedChains ==
    {<<>>,
     <<"1.1.1.1">>,
     <<"1.1.1.1", ",", " ", "2.2.2.2">>,
     <<" ", "1.1.1.1", " ", ",", "2.2.2.2">>,
     <<" ", ",", "2.2.2.2">>}
RealIps == {<<>>, <<"3.3.3.3">>, <<" ", "3.3.3.3", " ">>}
Peers == {<<"4.4.4.4">>}
FrameworkIps == {<<"9.9.9.9">>}

ExtractRequests ==
    [url : {<<"/x">>},
     xff : {Absent} \cup {Some(c) : c \in ForwardedChains},
     realIp : {Absent} \cup {Some(h) : h \in RealIps},
     remoteAddress : {Absent} \cup {Some(a) : a \in Peers},
     ip : {Absent} \cup {Some(a) : a \in FrameworkIps}]

\* buildHeaders: the value given to headers['X-Forwarded-For']
ForwardedFor(req) ==
    IF Truthy(req.xff) THEN req.xff[1]
    ELSE IF Truthy(req.remoteAddress) THEN req.remoteAddress[1]
    ELSE <<"unknown">>

\* the limiter derives the key of the request in hand
ExtractKey ==
    /\ exKey = Absent
    /\ exKey' = Some(extractIp(exReq, trustProxy))
    /\ UNCHANGED <<now, records, hist, last, configVars, listVars,
                   exReq, exFwd, proxyVars, otherVars>>

\* the admitted request is forwarded: Proxy.buildHeaders(req, target)
BuildHeaders ==
    /\ exKey # Absent
    /\ exFwd = Absent
    /\ exFwd' = Some(ForwardedFor(exReq))
    /\ UNCHANGED <<now, records, hist, last, configVars, listVars,
                   exReq, exKey, proxyVars, otherVars>>

InitExtract ==
    /\ TrackerIdle /\ ListsIdle /\ ProxyIdle /\ OtherIdle
    /\ trustProxy \in BOOLEAN
    /\ exReq \in ExtractRequests
    /\ exKey = Absent
    /\ exFwd = Absent

NextExtract == ExtractKey \/ BuildHeaders

SpecExtract == InitExtract /\ [][NextExtract]_vars

-----------------------------------------------------------------------------
(* Proxy, DockerDiscovery and the entry point's refresh callback *)

\* A URL is the sequence of its lexemes: protocol, "//", host, ":", port
ManualUrl == <<"http:", "//", "nginx", ":", "8080">>
ManualUrlNoPort == <<"http:", "//", "backend">>
ManualHostChoices == {<<>>, <<ManualUrl>>, <<ManualUrl, ManualUrlNoPort>>}

\* what the container runtime reports.  A port published on IPv4 and IPv6 is
\* listed twice.
selfContainerName == "ddos-guardian"
Guardian ==
    [name |-> selfContainerName, connectable |-> TRUE,
     ports |-> <<[privatePort |-> "80", publicPort |-> "80", type |-> "tcp"]>>]
Web ==
    [name |-> "web", connectable |-> TRUE,
     ports |-> <<[privatePort |-> "3000", publicPort |-> "8080", type |-> "tcp"],
                 [privatePort |-> "3000", publicPort |-> "8080", type |-> "tcp"]>>]
Api ==
    [name |-> "api", connectable |-> TRUE,
     ports |-> <<[privatePort |-> "4000", publicPort |-> "", type |-> "tcp"],
                 [privatePort |-> "4001", publicPort |-> "", type |-> "udp"]>>]
Stray == [name |-> "stray", connectable |-> FALSE, ports |-> Web.ports]

\* the outcomes of the query GET /containers/json
QueryFailed == [ok |-> FALSE, containers |-> <<>>]
QueryOk(cs) == [ok |-> TRUE, containers |-> cs]
ScanResults ==
    {QueryFailed} \cup
    {QueryOk(cs) : cs \in {<<Guardian>>, <<Guardian, Web>>, <<Api, Guardian>>,
                           <<Guardian, Web, Api>>, <<Api, Stray, Web, Guardian>>}}

\* getContainers: a failed query is logged and yields no container
getContainers(result) == IF result.ok THEN result.containers ELSE <<>>

\* the Map keyed by public port, in insertion order
EmptyMap == <<>>
MapHas(m, k) == \E i \in 1..Len(m) : m[i].key = k
MapPush(m, k, v) ==
    IF MapHas(m, k)
    THEN [i \in 1..Len(m) |->
             IF m[i].key = k THEN [m[i] EXCEPT !.list = Append(@, v)] ELSE m[i]]
    ELSE Append(m, [key |-> k, list |-> <<v>>])

\* the upstream entry built for a port of a container
UpstreamOf(c, port) ==
    [container |-> c.name, host |-> c.name, port |-> port.privatePort,
     publicPort |-> IF port.publicPort # "" THEN port.publicPort
                    ELSE port.privatePort,
     url |-> <<"http:", "//", c.name, ":", port.privatePort>>]

RECURSIVE AddPorts(_, _, _)
AddPorts(m, c, ports) ==
    IF ports = <<>> THEN m
    ELSE LET port == Head(ports)
             up == UpstreamOf(c, port)
         IN AddPorts(IF port.type # "tcp" THEN m
                     ELSE MapPush(m, up.publicPort, up),
                     c, Tail(ports))

RECURSIVE AddContainers(_, _)
AddContainers(m, cs) ==
    IF cs = <<>> THEN m
    ELSE LET c == Head(cs)
         IN AddContainers(IF c.name = selfContainerName \/ ~c.connectable THEN m
                          ELSE AddPorts(m, c, c.ports),
                          Tail(cs))

\* discoverUpstreams: the Map assigned to this.upstreams
DiscoverUpstreams(result) == AddContainers(EmptyMap, getContainers(result))

RECURSIVE Flatten(_)
Flatten(m) == IF m = <<>> THEN <<>> ELSE Head(m).list \o Flatten(Tail(m))

RECURSIVE Unique(_, _)
Unique(s, seen) ==
    IF s = <<>> THEN <<>>
    ELSE IF Head(s) \in seen THEN Unique(Tail(s), seen)
    ELSE <<Head(s)>> \o Unique(Tail(s), seen \cup {Head(s)})

\* getUpstreamUrls: the URLs of the Map, each once, in insertion order
getUpstreamUrls(m) ==
    LET all == Flatten(m) IN Unique([i \in 1..Len(all) |-> all[i].url], {})

Count(u, s) == Cardinality({i \in 1..Len(s) : s[i] = u})
Elems(s) == {s[i] : i \in 1..Len(s)}

\* [...a].sort().join(',') === [...b].sort().join(','): URLs hold no comma, so
\* the joins are equal exactly when both lists hold the same URLs as often
SameSortedJoin(a, b) ==
    /\ Len(a) = Len(b)
    /\ \A u \in Elems(a) \cup Elems(b) : Count(u, a) = Count(u, b)

\* new URL(target) and the fields parseTargets keeps of it
ParseTarget(u) ==
    [protocol |-> u[1], host |-> u[3],
     port |-> IF Len(u) >= 5 THEN u[5]
              ELSE IF u[1] = "https:" THEN "443" ELSE "80",
     path |-> "/", original |-> u]

\* parseTargets(targets)
parseTargets(list) == [i \in 1..Len(list) |-> ParseTarget(list[i])]

NextCursorNoWrap(cursor, n) == cursor + 1

\* getTarget: the cursor after a selection
NextCursor(cursor, n) == (cursor + 1) % n

\* getTarget: this.targets[this.currentTarget], undefined past the end
TargetAt(pool, cursor) ==
    IF cursor < Len(pool) THEN Some(pool[cursor + 1]) ELSE Absent

\* the default branch of handleRequest: proxy.forward(req, res) when
\* currentUpstreams is not empty, 503 otherwise; forward answers 502 when
\* getTarget gives no target
Forward ==
    LET selects == Len(currentUpstreams) > 0 /\ Len(targets) > 0
        target == IF selects THEN TargetAt(targets, currentTarget) ELSE Absent
        status == IF Len(currentUpstreams) = 0 THEN "503"
                  ELSE IF target = Absent THEN "502" ELSE "forwarded"
    IN /\ alive
       /\ Len(fwdLog) < MaxForwards
       /\ currentTarget' = IF selects THEN NextCursor(currentTarget, Len(targets))
                           ELSE currentTarget
       /\ fwdLog' = Append(fwdLog, [status |-> status, selects |-> selects,
                                    at |-> currentTarget, target |-> target,
                                    next |-> currentTarget',
                                    pool |-> targets, after |-> published])
       /\ UNCHANGED <<now, records, hist, last, configVars, listVars, extractVars,
                      manualHosts, upstreams, currentUpstreams, targets,
                      refreshTimer, initialScan, periodicScans, alive, published,
                      lastScan, lastReady, otherVars>>

\* GET /ready: 200 and ready when currentUpstreams is not empty, 503 otherwise
Ready ==
    LET hasUpstream == Len(currentUpstreams) > 0
    IN /\ alive
       /\ lastReady' = Some([status |-> IF hasUpstream THEN "200" ELSE "503",
                             ready |-> hasUpstream,
                             upstreams |-> Len(currentUpstreams),
                             pool |-> targets])
       /\ UNCHANGED <<now, records, hist, last, configVars, listVars, extractVars,
                      manualHosts, upstreams, currentUpstreams, targets,
                      currentTarget, refreshTimer, initialScan, periodicScans,
                      alive, published, lastScan, fwdLog, otherVars>>

\* One scan of startAutoRefresh finishing: discoverUpstreams assigns the Map,
\* then the callback of startServer runs.  The callback compares the sorted
\* lists and, when they differ, assigns currentUpstreams and calls
\* proxy.updateTargets, which class Proxy does not define: the call throws a
\* TypeError before anything of the proxy changes.  The periodic scan catches
\* and logs it; the initial scan's promise has no rejection handler, and the
\* unhandled rejection ends the process.
ScanFinish(result, caught) ==
    LET newMap == DiscoverUpstreams(result)
        newUpstreams == getUpstreamUrls(newMap)
        changed == ~SameSortedJoin(currentUpstreams, newUpstreams)
    IN /\ upstreams' = newMap
       /\ currentUpstreams' = IF changed THEN newUpstreams ELSE currentUpstreams
       /\ published' = IF changed THEN Some(newUpstreams) ELSE published
       /\ alive' = IF changed /\ ~caught THEN FALSE ELSE alive
       /\ lastScan' = [outcome |-> IF result.ok THEN "ok" ELSE "failed",
                       after |-> lastScan.outcome,
                       upstreams |-> upstreams,
                       currentUpstreams |-> currentUpstreams,
                       targets |-> targets]
       /\ UNCHANGED <<targets, currentTarget>>

\* the initial scan of startAutoRefresh
InitialScan(result) ==
    /\ alive /\ initialScan
    /\ initialScan' = FALSE
    /\ ScanFinish(result, FALSE)
    /\ UNCHANGED <<now, records, hist, last, configVars, listVars, extractVars,
                   manualHosts, refreshTimer, periodicScans, fwdLog, lastReady,
                   otherVars>>

\* a periodic scan of the refresh timer
PeriodicScan(result) ==
    /\ alive /\ refreshTimer
    /\ periodicScans < MaxScans
    /\ periodicScans' = periodicScans + 1
    /\ ScanFinish(result, TRUE)
    /\ UNCHANGED <<now, records, hist, last, configVars, listVars, extractVars,
                   manualHosts, refreshTimer, initialScan, fwdLog, lastReady,
                   otherVars>>

\* startServer up to the call of startAutoRefresh: initUpstreams takes the
\* manual hosts if any, else what a first discovery finds; the proxy is built
\* with that list
InitProxy ==
    \E manual \in ManualHostChoices, available \in BOOLEAN, first \in ScanResults :
        LET discovers == manual = <<>> /\ available
            map == IF discovers THEN DiscoverUpstreams(first) ELSE EmptyMap
            list == IF manual # <<>> THEN manual ELSE getUpstreamUrls(map)
        IN /\ manualHosts = manual
           /\ upstreams = map
           /\ currentUpstreams = list
           /\ targets = parseTargets(list)
           /\ currentTarget = 0
           /\ refreshTimer = available
           /\ initialScan = available
           /\ periodicScans = 0
           /\ alive = TRUE
           /\ published = Absent
           /\ lastScan = [NoScan EXCEPT !.outcome =
                             IF ~discovers THEN "none"
                             ELSE IF first.ok THEN "ok" ELSE "failed"]
           /\ fwdLog = <<>>
           /\ lastReady = Absent

InitProxyOnly ==
    /\ TrackerIdle /\ ListsIdle /\ trustProxy = TRUE /\ ExtractIdle
    /\ OtherIdle
    /\ InitProxy

NextProxy ==
    \/ Forward
    \/ Ready
    \/ \E result \in ScanResults : InitialScan(result)
    \/ \E result \in ScanResults : PeriodicScan(result)

SpecProxy == InitProxyOnly /\ [][NextProxy]_vars

-----------------------------------------------------------------------------
(* Claims about the limiter *)

\* C4: check applies the rules in the order disabled, skip path, allow-list,
\* deny-list, tracker and returns the outcome of the first that applies:
\* disabled allows everything, a skip path is allowed whatever the lists say,
\* an allow-listed key is allowed whatever the tracker holds, a deny-listed
\* key is refused whatever its window holds.
C4_CheckOrder ==
    (last.op = "check") =>
        LET r == last.req
            k == getKey(r)
            res == last.res
        IN /\ ~enabled => (res.allowed /\ res.reason = "disabled")
           /\ (enabled /\ shouldSkip(r)) => (res.allowed /\ res.reason = "skipped")
           /\ (enabled /\ ~shouldSkip(r) /\ k \in whitelist)
                 => (res.allowed /\ res.reason = "whitelisted")
           /\ (enabled /\ ~shouldSkip(r) /\ k \notin whitelist /\ k \in blacklist)
                 => (~res.allowed /\ res.reason = "blacklisted")
           /\ (enabled /\ ~shouldSkip(r) /\ k \notin whitelist \cup blacklist)
                 => res.reason \in {"null", "blocked", "rate_limit_exceeded"}

\* an allow-listed key that is also deny-listed and actively blocked in the
\* tracker has just been admitted as whitelisted
C4_Witness ==
    /\ last.op = "check" /\ enabled /\ ~shouldSkip(last.req)
    /\ last.ip \in whitelist /\ last.ip \in blacklist
    /\ last.had /\ StillBlocked(last.pre, now)
    /\ last.res.allowed /\ last.res.reason = "whitelisted"

\* C5 as stated: after any admin operation on the lists, from any lists the
\* limiter can be constructed with, no key is in both lists.
C5_Disjoint ==
    (last.op \in {"addToWhitelist", "removeFromWhitelist",
                  "addToBlacklist", "removeFromBlacklist"})
        => whitelist \cap blacklist = {}

-----------------------------------------------------------------------------
(* Claims about key extraction and the headers sent upstream *)

\* the peer address the request object reports (its socket's, else its ip
\* property), 'unknown' when it reports none
PeerOf(req) ==
    IF req.remoteAddress # Absent THEN req.remoteAddress[1]
    ELSE IF req.ip # Absent THEN req.ip[1]
    ELSE <<"unknown">>

\* C6 as stated: with trust_proxy the key is the trimmed first entry of
\* x-forwarded-for if that header is present, else x-real-ip if present, else
\* the socket peer address, else 'unknown'; without trust_proxy it is the
\* socket peer address.
C6_Original ==
    (exKey # Absent) =>
        LET k == exKey[1] IN
        /\ (trustProxy /\ exReq.xff # Absent)
              => k = Trim(SplitFirst(exReq.xff[1], ","))
        /\ (trustProxy /\ exReq.xff = Absent /\ exReq.realIp # Absent)
              => k = Trim(exReq.realIp[1])
        /\ (trustProxy /\ exReq.xff = Absent /\ exReq.realIp = Absent)
              => k = PeerOf(exReq)
        /\ ~trustProxy => k = PeerOf(exReq)

NonEmpty(h) == h # Absent /\ Len(h[1]) > 0

\* C6: with trust_proxy the key is the trimmed first entry of x-forwarded-for
\* if that header is present and not empty, else the trimmed x-real-ip header
\* if present and not empty, else the socket peer address, else 'unknown';
\* without trust_proxy it is the socket peer address (else 'unknown').
C6_KeyExtractor ==
    (exKey # Absent) =>
        LET k == exKey[1] IN
        /\ (trustProxy /\ NonEmpty(exReq.xff))
              => k = Trim(SplitFirst(exReq.xff[1], ","))
        /\ (trustProxy /\ ~NonEmpty(exReq.xff) /\ NonEmpty(exReq.realIp))
              => k = Trim(exReq.realIp[1])
        /\ (trustProxy /\ ~NonEmpty(exReq.xff) /\ ~NonEmpty(exReq.realIp))
              => k = PeerOf(exReq)
        /\ ~trustProxy => k = PeerOf(exReq)

\* the key of a request with an empty x-forwarded-for and a padded x-real-ip
\* has been taken from x-real-ip, trimmed
C6_Witness ==
    /\ trustProxy
    /\ exReq.xff = Some(<<>>)
    /\ exReq.realIp = Some(<<" ", "3.3.3.3", " ">>)
    /\ exReq.remoteAddress # Absent
    /\ exKey = Some(<<"3.3.3.3">>)

\* C7 as stated: the x-forwarded-for sent upstream is the key the extractor
\* chose for the request, never the literal inbound header.
C7_ForwardedForIsKey ==
    (exFwd # Absent) => exFwd = exKey

-----------------------------------------------------------------------------
(* Claims about the proxy and discovery *)

\* C8 as stated: once the refresh callback has published a list L, every
\* later forward selects an element of L, or finds the pool empty only if L
\* is empty.
C8_PublishedPool ==
    \A i \in 1..Len(fwdLog) :
        LET e == fwdLog[i] IN
        (e.after # Absent) =>
            IF e.after[1] = <<>> THEN e.status # "forwarded"
            ELSE /\ e.status = "forwarded"
                 /\ e.target[1].original \in Elems(e.after[1])

\* the forwards in which getTarget made a selection
Selections == SelectSeq(fwdLog, LAMBDA e : e.selects)

\* C9: for a non-empty pool of n targets the cursor is in 0..n-1 in every
\* state; each selection takes pool[cursor] and leaves the cursor at
\* (cursor + 1) mod n; any n consecutive selections pick every target once.
C9_RoundRobin ==
    /\ Len(targets) > 0 => currentTarget \in 0..(Len(targets) - 1)
    /\ \A i \in 1..Len(Selections) :
          LET e == Selections[i]
              n == Len(e.pool)
          IN /\ e.at \in 0..(n - 1)
             /\ e.target = Some(e.pool[e.at + 1])
             /\ e.next = (e.at + 1) % n
             /\ i < Len(Selections) => Selections[i + 1].at = e.next
             /\ i + n - 1 <= Len(Selections)
                   => {Selections[j].at : j \in i..(i + n - 1)} = 0..(n - 1)

\* a pool of two targets has served three selections, the cursor wrapping
\* from the last target to the first
C9_Witness ==
    /\ Len(targets) = 2
    /\ Len(Selections) >= 3
    /\ \E i \in 1..Len(Selections) :
          Selections[i].at = 1 /\ Selections[i].next = 0

\* C10 as stated: a scan whose query fails, after a scan that succeeded,
\* leaves the discovered-upstream map, the published list and the target pool
\* as they were.
C10_FailOpen ==
    (lastScan.outcome = "failed" /\ lastScan.after = "ok") =>
        /\ upstreams = lastScan.upstreams
        /\ currentUpstreams = lastScan.currentUpstreams
        /\ targets = lastScan.targets

\* C11 as stated: with manual upstreams configured the discovery loop is never
\* started, and the list the routes use and the target pool stay the manually
\* configured list.
C11_ManualPoolFixed ==
    (manualHosts # <<>>) =>
        /\ ~refreshTimer
        /\ currentUpstreams = manualHosts
        /\ targets = parseTargets(manualHosts)

\* the URLs the target pool was parsed from
PoolUrls(pool) == [i \in 1..Len(pool) |-> pool[i].original]

\* C12 as stated: GET /ready answers 200 with ready=true exactly when the
\* target pool is not empty, a request is answered 503 'No upstream
\* configured' exactly when the pool is empty, and the list the routes use
\* holds the targets of the pool.
C12_ReadyMatchesPool ==
    /\ lastReady # Absent =>
          /\ lastReady[1].status = "200" <=> Len(lastReady[1].pool) > 0
          /\ lastReady[1].ready <=> lastReady[1].status = "200"
    /\ \A i \in 1..Len(fwdLog) :
          fwdLog[i].status = "503" <=> Len(fwdLog[i].pool) = 0
    /\ PoolUrls(targets) = currentUpstreams

-----------------------------------------------------------------------------
(* Proxy.forward: the exchange with the upstream and the answer to the client *)

UpstreamStatuses == {"200", "500"}

ErrorAnswerAlways(headersSent) == <<"502">>

\* the 'error' handler of proxyReq: 502 unless headers were sent
ErrorAnswer(headersSent) == IF ~headersSent THEN <<"502">> ELSE <<>>

\* the 'timeout' handler of proxyReq: 504 unless headers were sent
TimeoutAnswer(headersSent) == IF ~headersSent THEN <<"504">> ELSE <<>>

XferStep(r, x) ==
    /\ xfers' = [xfers EXCEPT ![r] = x]
    /\ UNCHANGED <<coreVars, botVars, pipeVars, adminVars, repVars, relayVars, stopVars>>

\* forward(req, res) with a target: transport.request(...), req.pipe(proxyReq)
SendUpstream(r) ==
    /\ xfers[r].phase = "none"
    /\ XferStep(r, [xfers[r] EXCEPT !.phase = "waiting"])

\* the response callback: res.writeHead(proxyRes.statusCode, ...), pipe
UpstreamResponse(r, code) ==
    /\ xfers[r].phase = "waiting"
    /\ XferStep(r, [xfers[r] EXCEPT !.phase = "streaming",
                                    !.headersSent = TRUE,
                                    !.responses = Append(@, code),
                                    !.events = Append(@, "response")])

\* the upstream ends its response and the piped answer ends with it
UpstreamEnd(r) ==
    /\ xfers[r].phase = "streaming"
    /\ XferStep(r, [xfers[r] EXCEPT !.phase = "done"])

\* proxyReq emits 'error' for a failure of the transport
TransportError(r) ==
    /\ xfers[r].phase \in {"waiting", "streaming"}
    /\ XferStep(r, [xfers[r] EXCEPT
                       !.phase = "failed",
                       !.responses = @ \o ErrorAnswer(xfers[r].headersSent),
                       !.headersSent = TRUE,
                       !.events = Append(@, "error")])

\* proxyReq emits 'timeout': proxyReq.destroy(), then 504 unless headers were
\* sent.  Destroying a request that has no response yet makes it emit 'error'
\* (socket hang up) once the socket has closed, after this handler returned.
Timeout(r) ==
    /\ xfers[r].phase \in {"waiting", "streaming"}
    /\ XferStep(r, [xfers[r] EXCEPT
                       !.phase = "destroyed",
                       !.destroyed = TRUE,
                       !.hangUp = (xfers[r].phase = "waiting"),
                       !.responses = @ \o TimeoutAnswer(xfers[r].headersSent),
                       !.headersSent = TRUE,
                       !.events = Append(@, "timeout")])

\* the 'error' raised by the destruction reaches the 'error' handler
HangUpError(r) ==
    /\ xfers[r].hangUp
    /\ XferStep(r, [xfers[r] EXCEPT
                       !.hangUp = FALSE,
                       !.responses = @ \o ErrorAnswer(xfers[r].headersSent),
                       !.headersSent = TRUE,
                       !.events = Append(@, "hangup")])

InitForward ==
    /\ TrackerIdle /\ ListsIdle /\ trustProxy = TRUE /\ ExtractIdle /\ ProxyIdle
    /\ IoIdle /\ BotIdle /\ PipeIdle /\ AdminIdle /\ RepIdle /\ RelayIdle /\ StopIdle

NextForward ==
    \E r \in ReqIds :
        \/ SendUpstream(r)
        \/ \E code \in UpstreamStatuses : UpstreamResponse(r, code)
        \/ UpstreamEnd(r)
        \/ TransportError(r)
        \/ Timeout(r)
        \/ HangUpError(r)

SpecForward == InitForward /\ [][NextForward]_vars

-----------------------------------------------------------------------------
(* BotDetector *)

KNOWN_BOTS ==
    <<"googlebot", "bingbot", "slurp", "duckduckbot", "baiduspider",
      "yandexbot", "sogou", "facebot", "ia_archiver", "semrushbot",
      "ahrefsbot", "mj12bot", "dotbot", "petalbot", "bytespider">>

SUSPICIOUS_UA ==
    <<"python-requests", "python-urllib", "curl", "wget", "httpie",
      "postman", "insomnia", "axios", "node-fetch", "go-http-client",
      "java", "libwww", "lwp-trivial", "php", "ruby">>

BAD_PATTERNS ==
    <<"sqlmap", "nikto", "nmap", "masscan", "zgrab",
      "nessus", "openvas", "burp", "owasp", "acunetix",
      "dirbuster", "gobuster", "wfuzz", "hydra", "medusa">>

\* A user-agent is the sequence of its words and separators.
\* ua.length: the characters of all of them
RECURSIVE UaLength(_)
UaLength(ua) == IF ua = <<>> THEN 0 ELSE Len(Head(ua)) + UaLength(Tail(ua))

\* toLowerCase of a word
LowerWord(w) ==
    CASE w = "Googlebot" -> "googlebot"
      [] w = "Mozilla" -> "mozilla"
      [] w = "Firefox" -> "firefox"
      [] w = "Nmap" -> "nmap"
      [] OTHER -> w

\* ua.toLowerCase().includes(word)
Includes(ua, word) == \E i \in 1..Len(ua) : LowerWord(ua[i]) = word

\* the first entry of a list that the user-agent includes, where the loop breaks
FirstMatch(list, ua) ==
    LET hits == {i \in 1..Len(list) : Includes(ua, list[i])}
    IN IF hits = {} THEN Absent
       ELSE Some(list[CHOOSE i \in hits : \A j \in hits : i <= j])

\* req.headers['user-agent'] || ''
UaOf(req) == IF Truthy(req.ua) THEN req.ua[1] ELSE <<>>

\* BotDetector.extractIp(req)
BotExtractIp(req) ==
    IF req.xff # Absent /\ Trim(SplitFirst(req.xff[1], ",")) # <<>>
    THEN Trim(SplitFirst(req.xff[1], ","))
    ELSE IF Truthy(req.realIp) THEN req.realIp[1]
    ELSE IF Truthy(req.remoteAddress) THEN req.remoteAddress[1]
    ELSE <<"unknown">>

\* analyzePatterns(ip): the record of the ip before the call
PatternOf(ip) ==
    IF ip \in DOMAIN patterns THEN patterns[ip]
    ELSE [requests |-> <<>>, lastRequest |-> now]

\* analyzePatterns(ip): the record of the ip after the call
PatternAfter(ip) ==
    [requests |-> SelectSeq(Append(PatternOf(ip).requests, now),
                            LAMBDA ts : now - ts < 10000),
     lastRequest |-> now]

\* analyzePatterns(ip): the score it returns
PatternScore(ip) ==
    LET timeSinceLast == now - PatternOf(ip).lastRequest
        n == Len(PatternAfter(ip).requests)
    IN (IF timeSinceLast < 100 /\ timeSinceLast > 0 THEN 15 ELSE 0)
       + (IF n > 20 THEN 20 ELSE IF n > 10 THEN 10 ELSE 0)

\* the signals of analyze(req) in the order they are tested, each with the
\* score it adds
Signals(req) ==
    LET ua == UaOf(req)
        known == FirstMatch(KNOWN_BOTS, ua)
        sus == FirstMatch(SUSPICIOUS_UA, ua)
        bad == FirstMatch(BAD_PATTERNS, ua)
        patternScore == PatternScore(BotExtractIp(req))
        If(c, sig, pts) == IF c THEN <<[reason |-> sig, score |-> pts]>> ELSE <<>>
    IN If(ua = <<>> \/ UaLength(ua) < 10, <<"missing_or_short_ua">>, 30)
       \o If(known # Absent, <<"known_bot">> \o known, 20)
       \o If(sus # Absent, <<"suspicious_ua">> \o sus, 15)
       \o If(bad # Absent, <<"bad_pattern">> \o bad, 50)
       \o If(~Truthy(req.accept), <<"missing_accept">>, 10)
       \o If(~Truthy(req.acceptLanguage), <<"missing_accept_language">>, 10)
       \o If(~Truthy(req.acceptEncoding), <<"missing_accept_encoding">>, 5)
       \o If(Truthy(req.xff) /\ ~Truthy(req.via), <<"proxy_without_via">>, 5)
       \o If(patternScore > 0, <<"rapid_requests">>, patternScore)
       \o If(req.connection = Some(<<"close">>), <<"connection_close">>, 5)

RECURSIVE SumScores(_)
SumScores(sigs) ==
    IF sigs = <<>> THEN 0 ELSE Head(sigs).score + SumScores(Tail(sigs))

Min(a, b) == IF a <= b THEN a ELSE b

ScoreUncapped(req) == SumScores(Signals(req))

\* score = Math.min(100, score)
Score(req) == Min(100, SumScores(Signals(req)))

\* options.threshold || 70, in the middleware and again in the constructor
ThresholdOf(configured) == IF configured # 0 THEN configured ELSE DefaultThreshold

\* analyze(req): the result
AnalyzeResult(req) ==
    IF ~botEnabled
    THEN [isBot |-> FALSE, score |-> 0, threshold |-> ThresholdOf(botThreshold),
          reasons |-> <<>>, allowed |-> TRUE, ip |-> <<>>]
    ELSE LET sigs == Signals(req)
             isBot == Score(req) >= ThresholdOf(botThreshold)
         IN [isBot |-> isBot, score |-> Score(req),
             threshold |-> ThresholdOf(botThreshold),
             reasons |-> [i \in 1..Len(sigs) |-> sigs[i].reason],
             allowed |-> ~isBot, ip |-> BotExtractIp(req)]

\* analyze(req): the patterns after the call
AnalyzePatterns(req) ==
    IF ~botEnabled THEN patterns
    ELSE LET ip == BotExtractIp(req)
         IN [k \in DOMAIN patterns \cup {ip} |->
                IF k = ip THEN PatternAfter(ip) ELSE patterns[k]]

\* isKnownGoodBot(req)
isKnownGoodBot(req) ==
    \E bot \in {"googlebot", "bingbot", "duckduckbot"} : Includes(UaOf(req), bot)

\* the requests the detector is driven with
UserAgents ==
    {<<"curl", "/", "8.0">>,
     <<"Googlebot", "/", "2.1">>,
     <<"Mozilla", "/", "5.0", " ", "Firefox", "/", "120.0">>,
     <<"sqlmap", "/", "1.7">>,
     <<"Nmap", " ", "python-requests", " ", "Googlebot">>}

BotRequests ==
    {r \in [url : {<<"/x">>},
            xff : {Absent, Some(<<"1.2.3.4">>)},
            realIp : {Absent},
            remoteAddress : {Some(<<"5.6.7.8">>)},
            ip : {Absent},
            ua : {Absent} \cup {Some(ua) : ua \in UserAgents},
            accept : {Absent, Some(<<"*/*">>)},
            acceptLanguage : {Absent, Some(<<"en">>)},
            acceptEncoding : {Absent, Some(<<"gzip">>)},
            via : {Absent},
            connection : {Absent, Some(<<"close">>)}] :
        (r.accept = Absent) = (r.acceptLanguage = Absent)
        /\ (r.accept = Absent) = (r.acceptEncoding = Absent)}

BotTickMs == 50

\* the patterns a detector can hold for a client that has just sent n requests
BusyPattern(n) ==
    [requests |-> [i \in 1..n |-> StartNow - BotTickMs],
     lastRequest |-> StartNow - BotTickMs]

PriorPatterns ==
    {<<>>} \cup
    {[k \in {<<"1.2.3.4">>} |-> BusyPattern(n)] : n \in {10, 20}}

ConfiguredThresholds == {0, 45, DefaultThreshold, 100}

\* detector.analyze(req)
Analyze(req) ==
    /\ botLast.n < MaxAnalyses
    /\ patterns' = AnalyzePatterns(req)
    /\ botLast' = [op |-> "analyze", n |-> botLast.n + 1, req |-> req,
                   res |-> AnalyzeResult(req), uncapped |-> ScoreUncapped(req)]
    /\ UNCHANGED <<coreVars, ioVars, botThreshold, botEnabled, pipeVars, adminVars,
                   repVars, relayVars, stopVars>>

\* time passes
BotTick ==
    /\ now < StartNow + MaxBotTicks * BotTickMs
    /\ now' = now + BotTickMs
    /\ UNCHANGED <<records, hist, last, configVars, listVars, extractVars,
                   proxyVars, otherVars>>

\* botDetectionMiddleware({threshold, enabled}) -> new BotDetector(...)
InitBot ==
    /\ TrackerIdle /\ ListsIdle /\ trustProxy \in BOOLEAN /\ ExtractIdle /\ ProxyIdle
    /\ IoIdle /\ PipeIdle /\ AdminIdle /\ RepIdle /\ RelayIdle /\ StopIdle
    /\ botThreshold \in ConfiguredThresholds
    /\ botEnabled \in BOOLEAN
    /\ patterns \in PriorPatterns
    /\ botLast = NoBotLast

NextBot ==
    \/ \E req \in BotRequests : Analyze(req)
    \/ BotTick

SpecBot == InitBot /\ [][NextBot]_vars

-----------------------------------------------------------------------------
(* handleRequest: the middleware chain, the built-in routes, the forwarder *)

middlewareStack ==
    <<"requestId", "securityHeaders", "botDetection", "rateLimit",
      "requestLogger">>

\* botDetectionMiddleware is built with blockBots: true, allowGoodBots: true
blockBots == TRUE
allowGoodBots == TRUE

PipeUrls ==
    {<<"/x">>, <<"/health">>, <<"/ready">>, <<"/metrics">>,
     <<"/api", "/", "stats">>}

PipeRequests ==
    {r \in [url : PipeUrls,
            xff : {Absent},
            realIp : {Absent},
            remoteAddress : {Some(<<"1.2.3.4">>)},
            ip : {Absent},
            ua : {Some(<<"curl", "/", "8.0">>), Some(<<"Googlebot", "/", "2.1">>),
                  Some(<<"Mozilla", "/", "5.0", " ", "Firefox", "/", "120.0">>)},
            accept : {Absent, Some(<<"*/*">>)},
            acceptLanguage : {Absent, Some(<<"en">>)},
            acceptEncoding : {Absent, Some(<<"gzip">>)},
            via : {Absent},
            connection : {Absent}] :
        (r.accept = Absent) = (r.acceptLanguage = Absent)
        /\ (r.accept = Absent) = (r.acceptEncoding = Absent)}

\* req.url.split('?')[0]
PathOf(req) == SplitFirst(req.url, "?")

PipeStep(p) ==
    /\ pipe' = p
    /\ UNCHANGED <<now, hist, last, configVars, listVars, extractVars, ioVars,
                   botThreshold, botEnabled, botLast, adminVars, repVars, relayVars, stopVars>>

ProxyUntouched ==
    UNCHANGED <<manualHosts, upstreams, currentUpstreams, targets, currentTarget,
                refreshTimer, initialScan, periodicScans, alive, published,
                lastScan, fwdLog, lastReady>>

\* a request arrives: handleRequest(req, res)
Arrive(req) ==
    /\ pipe.phase \in {"idle", "done"}
    /\ pipe.n < MaxArrivals
    /\ PipeStep([phase |-> IF StartsWith(PathOf(req), <<"/api", "/">>)
                           THEN "api" ELSE "middleware",
                 n |-> pipe.n + 1, req |-> req, index |-> 1, ran |-> <<>>,
                 status |-> Absent, forwarded |-> FALSE,
                 botDetection |-> Absent, allowedGoodBot |-> FALSE,
                 rateLimit |-> Absent, log |-> <<>>])
    /\ UNCHANGED <<records, patterns>>
    /\ ProxyUntouched

\* the stage of the chain that runMiddleware calls next
AtStage(name) ==
    /\ pipe.phase = "middleware"
    /\ pipe.index <= Len(middlewareStack)
    /\ middlewareStack[pipe.index] = name

\* the stage called next(): runMiddleware goes on to the following stage, and
\* resolves true after the last
Passed(p) ==
    [p EXCEPT !.ran = Append(@, middlewareStack[p.index]),
              !.index = @ + 1,
              !.phase = IF p.index = Len(middlewareStack) THEN "routes" ELSE @]

\* the stage ended the response and did not call next(): nothing runs after it
Ended(p, status) ==
    [p EXCEPT !.ran = Append(@, middlewareStack[p.index]),
              !.status = Some(status),
              !.phase = "done"]

\* requestIdMiddleware: req.id, the X-Request-ID header, next()
StageRequestId ==
    /\ AtStage("requestId")
    /\ PipeStep(Passed(pipe))
    /\ UNCHANGED <<records, patterns>>
    /\ ProxyUntouched

\* securityHeadersMiddleware: the security headers, next()
StageSecurityHeaders ==
    /\ AtStage("securityHeaders")
    /\ PipeStep(Passed(pipe))
    /\ UNCHANGED <<records, patterns>>
    /\ ProxyUntouched

BotVerdictAlwaysBlocks(res, req) ==
    IF res.isBot /\ blockBots THEN "block" ELSE "next"

\* botDetectionMiddleware: what it does with the result of analyze
BotVerdict(res, req) ==
    IF res.isBot /\ allowGoodBots /\ isKnownGoodBot(req) THEN "goodBot"
    ELSE IF res.isBot /\ blockBots THEN "block"
    ELSE "next"

\* the characters of the remote address the requests come from
Characters(ip) ==
    IF ip = <<"1.2.3.4">> THEN <<"1", ".", "2", ".", "3", ".", "4">> ELSE ip

\* IpTracker.maskIp(ip)
maskIp(ip) ==
    IF ip = <<>> THEN <<"unknown">>
    ELSE IF \E i \in 1..Len(ip) : ip[i] = "."
         THEN LET parts == SplitAll(ip, ".")
              IN parts[1] \o <<".">> \o parts[2] \o <<".xxx.xxx">>
    ELSE IF \E i \in 1..Len(ip) : ip[i] = ":"
         THEN LET parts == SplitAll(ip, ":")
              IN parts[1] \o <<":">> \o parts[2] \o <<":xxxx:xxxx">>
    ELSE <<"masked">>

\* BotDetector.maskIp(ip)
BotMaskIp(ip) ==
    IF ip = <<>> THEN <<"unknown">>
    ELSE IF \E i \in 1..Len(ip) : ip[i] = "."
         THEN LET parts == SplitAll(ip, ".")
              IN parts[1] \o <<".">> \o parts[2] \o <<".xxx.xxx">>
    ELSE <<"masked">>

\* a line logger.warn writes: its message and its ip field
WarnLine(msg, ip) == [msg |-> msg, ip |-> ip]

\* the lines analyze and botDetectionMiddleware write for a request
BotLog(req) ==
    LET res == AnalyzeResult(req) IN
    (IF res.isBot
     THEN <<WarnLine("Bot detected", BotMaskIp(Characters(BotExtractIp(req))))>>
     ELSE <<>>)
    \o (IF BotVerdict(res, req) = "block"
        THEN <<WarnLine("Bot blocked", Characters(res.ip))>>
        ELSE <<>>)

\* the lines check, track and rateLimitMiddleware write for a request
RateLimitLog(req) ==
    LET rule == CheckRule(req)
        res == CheckResult(req)
        ip == getKey(req)
    IN (IF rule = "blacklisted"
        THEN <<WarnLine("Blacklisted IP attempted access", maskIp(Characters(ip)))>>
        ELSE IF rule = "track" /\ res.reason = "rate_limit_exceeded"
        THEN <<WarnLine("IP blocked for rate limit", maskIp(Characters(ip)))>>
        ELSE <<>>)
       \o (IF ~res.allowed
           THEN <<WarnLine("Request blocked by rate limit", Characters(ip))>>
           ELSE <<>>)

\* botDetectionMiddleware
StageBot ==
    /\ AtStage("botDetection")
    /\ IF ~botEnabled
       THEN /\ PipeStep(Passed(pipe))
            /\ UNCHANGED patterns
       ELSE LET res == AnalyzeResult(pipe.req)
                verdict == BotVerdict(res, pipe.req)
                p == [pipe EXCEPT !.botDetection = Some(res),
                                  !.allowedGoodBot = (verdict = "goodBot"),
                                  !.log = @ \o BotLog(pipe.req)]
            IN /\ patterns' = AnalyzePatterns(pipe.req)
               /\ PipeStep(IF verdict = "block" THEN Ended(p, "403") ELSE Passed(p))
    /\ UNCHANGED records
    /\ ProxyUntouched

\* rateLimitMiddleware: limiter.check(req), 429 unless allowed
StageRateLimit ==
    LET res == CheckResult(pipe.req)
        ip == getKey(pipe.req)
        p == [pipe EXCEPT !.rateLimit = Some(res),
                          !.log = @ \o RateLimitLog(pipe.req)]
    IN /\ AtStage("rateLimit")
       /\ records' = IF CheckRule(pipe.req) = "track"
                     THEN SetRecord(ip, TrackRecord(getRecord(ip), now))
                     ELSE records
       /\ PipeStep(IF res.allowed THEN Passed(p) ELSE Ended(p, "429"))
       /\ UNCHANGED patterns
       /\ ProxyUntouched

\* loggerMiddleware: the access-log hook passes the request on
StageRequestLogger ==
    /\ AtStage("requestLogger")
    /\ PipeStep(Passed(pipe))
    /\ UNCHANGED <<records, patterns>>
    /\ ProxyUntouched

\* the built-in routes and the forwarder, reached when every stage passed
Route ==
    LET path == PathOf(pipe.req)
        hasUpstream == Len(currentUpstreams) > 0
        forwards == path \notin {<<"/health">>, <<"/ready">>, <<"/metrics">>}
                    /\ hasUpstream
        selects == forwards /\ Len(targets) > 0
        target == IF selects THEN TargetAt(targets, currentTarget) ELSE Absent
        status == IF path = <<"/health">> \/ path = <<"/metrics">> THEN Some("200")
                  ELSE IF path = <<"/ready">>
                       THEN Some(IF hasUpstream THEN "200" ELSE "503")
                  ELSE IF ~hasUpstream THEN Some("503")
                  ELSE IF target = Absent THEN Some("502")
                  ELSE Absent
    IN /\ pipe.phase = "routes"
       /\ currentTarget' = IF selects THEN NextCursor(currentTarget, Len(targets))
                           ELSE currentTarget
       /\ fwdLog' = IF forwards
                    THEN Append(fwdLog,
                                [status |-> IF target = Absent THEN "502"
                                            ELSE "forwarded",
                                 selects |-> selects, at |-> currentTarget,
                                 target |-> target, next |-> currentTarget',
                                 pool |-> targets, after |-> published])
                    ELSE fwdLog
       /\ lastReady' = IF path = <<"/ready">>
                       THEN Some([status |-> status[1], ready |-> hasUpstream,
                                  upstreams |-> Len(currentUpstreams),
                                  pool |-> targets])
                       ELSE lastReady
       /\ PipeStep([pipe EXCEPT !.phase = "done", !.status = status,
                                !.forwarded = forwards /\ target # Absent])
       /\ UNCHANGED <<records, patterns, manualHosts, upstreams, currentUpstreams,
                      targets, refreshTimer, initialScan, periodicScans, alive,
                      published, lastScan>>

\* a path under /api/: requestId and securityHeaders, then handleAdminApi,
\* which answers every request it is given
ApiRoute ==
    /\ pipe.phase = "api"
    /\ PipeStep([pipe EXCEPT !.phase = "done",
                             !.ran = <<"requestId", "securityHeaders">>,
                             !.status = Some("200")])
    /\ UNCHANGED <<records, patterns>>
    /\ ProxyUntouched

\* startServer with the configured threshold left at its default, no container
\* runtime, and one remote address that may be deny-listed
InitPipeline ==
    /\ TrackerIdle /\ trustProxy = TRUE /\ ExtractIdle /\ IoIdle
    /\ whitelist = {} /\ blacklist \in SUBSET {<<"1.2.3.4">>} /\ enabled = TRUE
    /\ \E manual \in ManualHostChoices :
          /\ manualHosts = manual
          /\ upstreams = EmptyMap
          /\ currentUpstreams = manual
          /\ targets = parseTargets(manual)
    /\ currentTarget = 0
    /\ refreshTimer = FALSE /\ initialScan = FALSE /\ periodicScans = 0
    /\ alive = TRUE /\ published = Absent /\ lastScan = NoScan
    /\ fwdLog = <<>> /\ lastReady = Absent
    /\ botThreshold = DefaultThreshold
    /\ botEnabled \in BOOLEAN
    /\ patterns \in PriorPatterns
    /\ botLast = NoBotLast
    /\ pipe = NoPipe
    /\ AdminIdle /\ RepIdle /\ RelayIdle /\ StopIdle

NextPipeline ==
    \/ \E req \in PipeRequests : Arrive(req)
    \/ StageRequestId
    \/ StageSecurityHeaders
    \/ StageBot
    \/ StageRateLimit
    \/ StageRequestLogger
    \/ Route
    \/ ApiRoute

SpecPipeline == InitPipeline /\ [][NextPipeline]_vars

-----------------------------------------------------------------------------
(* Claims about the pipeline *)

IsPrefix(s, t) == Len(s) <= Len(t) /\ SubSeq(t, 1, Len(s)) = s

\* the paths answered by handleRequest itself or by handleAdminApi
Administrative(path) ==
    \/ path \in {<<"/health">>, <<"/ready">>, <<"/metrics">>}
    \/ StartsWith(path, <<"/api", "/">>)

\* the stages in the order the pipeline is described in
StagesDescribed ==
    <<"requestId", "securityHeaders", "botDetection", "rateLimit",
      "ipReputation", "requestLogger">>

-----------------------------------------------------------------------------
(* Admin API: handleAdminApi *)

\* An address in a request body or a path is the sequence of its characters.
Digits == {"0", "1", "2", "3", "4", "5", "6", "7", "8", "9"}

HexDigits == Digits \cup {"a", "b", "c", "d", "e", "f", "A", "B", "C", "D", "E", "F"}

DigitValue(c) ==
    CASE c = "0" -> 0 [] c = "1" -> 1 [] c = "2" -> 2 [] c = "3" -> 3
      [] c = "4" -> 4 [] c = "5" -> 5 [] c = "6" -> 6 [] c = "7" -> 7
      [] c = "8" -> 8 [] c = "9" -> 9

\* the key the limiter keeps an address under
KeyOf(chars) == <<Join(chars)>>

RECURSIVE Number(_)
\* Number(part) of a run of decimal digits
Number(part) ==
    IF part = <<>> THEN 0
    ELSE 10 * Number(SubSeq(part, 1, Len(part) - 1)) + DigitValue(part[Len(part)])

\* /^(\d{1,3}\.){3}\d{1,3}$/
ipv4Regex(ip) ==
    LET parts == SplitAll(ip, ".")
    IN /\ Len(parts) = 4
       /\ \A i \in 1..4 :
             /\ Len(parts[i]) \in 1..3
             /\ \A j \in 1..Len(parts[i]) : parts[i][j] \in Digits

\* /^([0-9a-fA-F]{0,4}:){2,7}[0-9a-fA-F]{0,4}$/
ipv6Regex(ip) ==
    LET parts == SplitAll(ip, ":")
    IN /\ Len(parts) \in 3..8
       /\ \A i \in 1..Len(parts) :
             /\ Len(parts[i]) <= 4
             /\ \A j \in 1..Len(parts[i]) : parts[i][j] \in HexDigits

\* isValidIp(ip)
isValidIp(ip) ==
    IF ip = <<>> THEN FALSE
    ELSE IF ipv4Regex(ip)
         THEN LET parts == SplitAll(ip, ".")
              IN \A i \in 1..Len(parts) : Number(parts[i]) >= 0 /\ Number(parts[i]) <= 255
         ELSE ipv6Regex(ip)

\* the addresses the admin API is called with
AdminAddresses ==
    {<<"1", ".", "2", ".", "3", ".", "4">>,
     <<" ", "1", ".", "2", ".", "3", ".", "4", " ">>,
     <<"1", ".", "2", ".", "3", ".", "2", "5", "6">>,
     <<"1", ".", "2", ".", "3">>,
     <<":", ":", "1">>,
     <<"b", "a", "d">>,
     <<" ">>,
     <<>>}

AdminPosts == {"whitelist", "blacklist", "block", "unblock"}

AdminDeletes == {"whitelist", "blacklist"}

AdminState == [whitelist |-> whitelist, blacklist |-> blacklist, records |-> records]

AdminStep(method, route, given, status) ==
    /\ adminLast.n < MaxAdminCalls
    /\ adminLast' = [op |-> method, n |-> adminLast.n + 1, route |-> route,
                     given |-> given, status |-> status, before |-> AdminState]
    /\ UNCHANGED <<now, hist, last, configVars, extractVars, proxyVars, ioVars,
                   botVars, pipeVars, repVars, relayVars, stopVars>>

\* what a POST route does with a body: body.ip?.trim(), the two tests, then
\* the limiter's method
PostStatus(route, body) ==
    LET ip == IF body = Absent THEN <<>> ELSE Trim(body[1])
    IN IF ip = <<>> THEN "400"
       ELSE IF route # "unblock" /\ ~isValidIp(ip) THEN "400"
       ELSE "200"

\* POST /api/whitelist, /api/blacklist, /api/block, /api/unblock with a JSON
\* body whose ip is a string or is missing
AdminPost(route, body) ==
    LET status == PostStatus(route, body)
        ip == KeyOf(Trim(body[1]))
        acts == status = "200"
    IN /\ (acts /\ route = "block") => TotalBlocks < MaxBlocks
       /\ AdminStep("POST", route, body, status)
       /\ IF acts /\ route = "whitelist" THEN AddToWhitelistSets(ip)
          ELSE IF acts /\ route = "blacklist"
               THEN /\ blacklist' = blacklist \cup {ip}
                    /\ whitelist' = whitelist \ {ip}
          ELSE UNCHANGED listVars
       /\ records' =
             IF acts /\ route = "block"
             THEN SetRecord(ip, [getRecord(ip) EXCEPT
                                    !.blocked = TRUE,
                                    !.blockedUntil = now + blockDurationMs,
                                    !.totalBlocks = @ + 1])
             ELSE IF acts /\ route = "unblock" /\ HasRecord(ip)
             THEN SetRecord(ip, [records[ip] EXCEPT !.blocked = FALSE,
                                                    !.blockedUntil = 0])
             ELSE records

\* DELETE /api/whitelist/:ip, /api/blacklist/:ip
DeleteStatus(list, ip) ==
    IF ip = <<>> THEN "400"
    ELSE IF KeyOf(ip) \notin (IF list = "whitelist" THEN whitelist ELSE blacklist)
    THEN "404"
    ELSE "200"

AdminDelete(list, ip) ==
    LET status == DeleteStatus(list, ip)
    IN /\ AdminStep("DELETE", list, Some(ip), status)
       /\ whitelist' = IF status = "200" /\ list = "whitelist"
                       THEN whitelist \ {KeyOf(ip)} ELSE whitelist
       /\ blacklist' = IF status = "200" /\ list = "blacklist"
                       THEN blacklist \ {KeyOf(ip)} ELSE blacklist
       /\ UNCHANGED records

\* startServer: the lists are empty and no record is kept
InitAdmin ==
    /\ TrackerIdle /\ ListsIdle /\ trustProxy = TRUE /\ ExtractIdle /\ ProxyIdle
    /\ IoIdle /\ BotIdle /\ PipeIdle /\ AdminIdle /\ RepIdle /\ RelayIdle /\ StopIdle

NextAdmin ==
    \/ \E route \in AdminPosts :
          \E body \in {Absent} \cup {Some(a) : a \in AdminAddresses} :
             AdminPost(route, body)
    \/ \E list \in AdminDeletes : \E ip \in AdminAddresses : AdminDelete(list, ip)

SpecAdmin == InitAdmin /\ [][NextAdmin]_vars

\* the address a call was given, as the handler reads it
GivenAddress ==
    IF adminLast.given = Absent THEN <<>>
    ELSE IF adminLast.op = "POST" THEN Trim(adminLast.given[1])
    ELSE adminLast.given[1]

-----------------------------------------------------------------------------
(* Claims about the bot scorer *)

BareGooglebot(req) ==
    /\ req.ua = Some(<<"Googlebot", "/", "2.1">>)
    /\ req.accept = Absent /\ req.acceptLanguage = Absent
    /\ req.acceptEncoding = Absent
    /\ req.xff = Absent /\ req.realIp = Absent
    /\ req.via = Absent /\ req.connection = Absent

HasReason(res, reason) == \E i \in 1..Len(res.reasons) : res.reasons[i] = reason

\* the bot stage has seen the request of a bare Googlebot with the scorer on
GooglebotScored ==
    /\ pipe.phase # "idle"
    /\ BareGooglebot(pipe.req)
    /\ botEnabled
    /\ \E i \in 1..Len(pipe.ran) : pipe.ran[i] = "botDetection"

\* the rate limiter admitted the request and there is an upstream for its path
ReachesForwarder ==
    /\ pipe.phase = "done"
    /\ pipe.rateLimit # Absent /\ pipe.rateLimit[1].allowed
    /\ ~Administrative(PathOf(pipe.req))
    /\ Len(currentUpstreams) > 0

-----------------------------------------------------------------------------
(* IPReputation *)

\* An address is the sequence of its characters, as for the admin API.
DayMs == 24 * 3600000

\* _getNextMidnight(), with the local day starting at a multiple of DayMs
NextMidnight(t) == (t \div DayMs + 1) * DayMs

PrivatePrefixes ==
    {<<"1", "0", ".">>}
    \cup {<<"1", "7", "2", ".">> \o d \o <<".">> :
             d \in {<<"1", "6">>, <<"1", "7">>, <<"1", "8">>, <<"1", "9">>,
                    <<"2", "0">>, <<"2", "1">>, <<"2", "2">>, <<"2", "3">>,
                    <<"2", "4">>, <<"2", "5">>, <<"2", "6">>, <<"2", "7">>,
                    <<"2", "8">>, <<"2", "9">>, <<"3", "0">>, <<"3", "1">>}}
    \cup {<<"1", "9", "2", ".", "1", "6", "8", ".">>,
          <<"1", "2", "7", ".">>,
          <<"1", "6", "9", ".", "2", "5", "4", ".">>,
          <<"f", "c">>, <<"f", "d">>, <<"f", "e", "8", "0">>}

\* _isPrivateIp(ip)
isPrivateIp(ip) ==
    \/ ip = <<>>
    \/ \E p \in PrivatePrefixes : StartsWith(ip, p)
    \/ ip = <<":", ":", "1">>

\* the addresses check and report are called with
RepAddresses ==
    {<<"8", ".", "8", ".", "8", ".", "8">>,
     <<"1", ".", "2", ".", "3", ".", "4">>,
     <<"1", "0", ".", "0", ".", "0", ".", "1">>,
     <<"1", "7", "2", ".", "1", "6", ".", "0", ".", "1">>,
     <<"f", "e", "8", "0", ":", ":", "1">>,
     <<"f", "e", "9", "0", ":", ":", "1">>}

\* the addresses a report is made of
ReportAddresses == {<<"8", ".", "8", ".", "8", ".", "8">>, <<"1", "0", ".", "0", ".", "0", ".", "1">>}

\* options.blockThreshold || 80
BlockThreshold == 80

\* options.cacheTTL || 3600000
CacheTTL == 3600000

\* the apiRateLimit option
Quotas == {1, 2}

\* the cacheMaxSize option
CacheSizes == {2}

\* what the provider answers to a lookup, as _queryAbuseIPDB resolves it
ProviderAnswers ==
    {[score |-> 0, reports |-> 0, categories |-> <<>>, country |-> "US",
      isp |-> "isp-a"],
     [score |-> 90, reports |-> 3, categories |-> <<14, 18>>, country |-> "NL",
      isp |-> "isp-b"]}

NoStats ==
    [totalChecks |-> 0, cacheHits |-> 0, apiCalls |-> 0,
     blockedByReputation |-> 0, reportsSent |-> 0]

\* new IPReputation(options) with no cache file to load
NewReputation(apiKey, quota, size, allow) ==
    [apiKey |-> apiKey, apiRateLimit |-> quota, cacheEnabled |-> TRUE,
     cacheMaxSize |-> size, whitelist |-> allow, cache |-> <<>>,
     apiCallsToday |-> 0, apiResetTime |-> NextMidnight(now), stats |-> NoStats,
     calls |-> <<>>, sent |-> <<>>, lookupsSinceReset |-> 0, file |-> Absent]

\* this.cache.get(ip): the position of the entry of ip, 0 when there is none
CacheIndex(cache, ip) ==
    IF \E i \in 1..Len(cache) : cache[i].ip = ip
    THEN CHOOSE i \in 1..Len(cache) : cache[i].ip = ip
    ELSE 0

Without(cache, ips) == SelectSeq(cache, LAMBDA e : e.ip \notin ips)

Expired(entry) == now - entry.lastChecked > CacheTTL

\* _getFromCache(ip): the entry it returns, if any
CacheGet(r, ip) ==
    LET i == CacheIndex(r.cache, ip)
    IN IF ~r.cacheEnabled \/ i = 0 \/ Expired(r.cache[i]) THEN Absent
       ELSE Some(r.cache[i])

\* _getFromCache(ip): the cache it leaves, an expired entry of ip deleted
CacheAfterGet(r, ip) ==
    LET i == CacheIndex(r.cache, ip)
    IN IF r.cacheEnabled /\ i # 0 /\ Expired(r.cache[i])
       THEN Without(r.cache, {ip}) ELSE r.cache

\* _addToCache: the entries that go when the cache is full, the oldest
\* quarter by lastChecked, entries of one instant in the order of insertion
Evicted(cache) ==
    LET before(i) == Cardinality({j \in 1..Len(cache) :
                        \/ cache[j].lastChecked < cache[i].lastChecked
                        \/ cache[j].lastChecked = cache[i].lastChecked /\ j < i})
    IN {cache[i].ip : i \in {k \in 1..Len(cache) : 4 * before(k) < Len(cache)}}

\* _addToCache(ip, data)
AddToCache(r, ip, data) ==
    LET kept == IF Len(r.cache) >= r.cacheMaxSize
                THEN Without(r.cache, Evicted(r.cache)) ELSE r.cache
        entry == [ip |-> ip, score |-> data.score, reports |-> data.reports,
                  categories |-> data.categories, country |-> data.country,
                  isp |-> data.isp, lastChecked |-> now]
        i == CacheIndex(kept, ip)
    IN IF ~r.cacheEnabled THEN r.cache
       ELSE IF i # 0 THEN [kept EXCEPT ![i] = entry]
       ELSE Append(kept, entry)

\* _checkRateReset()
CheckRateReset(r) ==
    IF now >= r.apiResetTime
    THEN [r EXCEPT !.apiCallsToday = 0, !.apiResetTime = NextMidnight(now),
                   !.lookupsSinceReset = 0]
    ELSE r

Verdict(reason) == [blocked |-> FALSE, score |-> 0, reason |-> reason, cached |-> FALSE]

Returned(r, kind, ip, result) ==
    [r EXCEPT !.calls = Append(@, [kind |-> kind, ip |-> ip, phase |-> "done",
                                   result |-> result])]

InFlight(r, kind, ip) ==
    [r EXCEPT !.calls = Append(@, [kind |-> kind, ip |-> ip, phase |-> "inflight"]),
              !.sent = Append(@, [kind |-> kind, ip |-> ip])]

RepStep(r) ==
    /\ rep' = r
    /\ UNCHANGED <<coreVars, ioVars, botVars, pipeVars, adminVars, relayVars, stopVars>>

\* check(ip) up to its return or to the await of the lookup
CheckStart(ip) ==
    LET r0 == [rep EXCEPT !.stats.totalChecks = @ + 1]
        r1 == [r0 EXCEPT !.cache = CacheAfterGet(r0, ip)]
        cached == CacheGet(r0, ip)
        r2 == CheckRateReset(r1)
    IN /\ Len(rep.calls) < MaxRepCalls
       /\ RepStep(
            IF isPrivateIp(ip) THEN Returned(r0, "check", ip, Verdict("private_ip"))
            ELSE IF ip \in rep.whitelist
                 THEN Returned(r0, "check", ip, Verdict("whitelisted"))
            ELSE IF cached # Absent
                 THEN Returned([r1 EXCEPT !.stats.cacheHits = @ + 1], "check", ip,
                         [blocked |-> cached[1].score >= BlockThreshold,
                          score |-> cached[1].score,
                          reason |-> IF cached[1].score >= BlockThreshold
                                     THEN "reputation_block" ELSE "ok",
                          cached |-> TRUE,
                          reports |-> cached[1].reports,
                          categories |-> cached[1].categories])
            ELSE IF ~rep.apiKey
                 THEN Returned(r1, "check", ip, Verdict("no_api_key"))
            ELSE IF r2.apiCallsToday >= r2.apiRateLimit
                 THEN Returned(r2, "check", ip, Verdict("rate_limited"))
            ELSE InFlight([r2 EXCEPT !.lookupsSinceReset = @ + 1], "check", ip))

Awaited(i, kind) ==
    /\ i \in 1..Len(rep.calls)
    /\ rep.calls[i].kind = kind
    /\ rep.calls[i].phase = "inflight"

Finished(r, i, result) ==
    [r EXCEPT !.calls[i] = [kind |-> @.kind, ip |-> @.ip, phase |-> "done",
                            result |-> result]]

\* check(ip): the result it returns for the data of a lookup
FreshResult(data) ==
    [blocked |-> data.score >= BlockThreshold, score |-> data.score,
     reason |-> IF data.score >= BlockThreshold THEN "reputation_block" ELSE "ok",
     cached |-> FALSE, reports |-> data.reports, categories |-> data.categories,
     country |-> data.country, isp |-> data.isp]

\* check(ip) after the await: the provider answered
LookupResolve(i, data) ==
    LET ip == rep.calls[i].ip
        blocked == data.score >= BlockThreshold
        r == [rep EXCEPT !.stats.apiCalls = @ + 1,
                         !.apiCallsToday = @ + 1,
                         !.cache = AddToCache(rep, ip, data),
                         !.stats.blockedByReputation =
                             IF blocked THEN @ + 1 ELSE @]
    IN /\ Awaited(i, "check")
       /\ RepStep(Finished(r, i, FreshResult(data)))

\* check(ip) after the await: the lookup failed (transport, timeout, parse)
LookupReject(i) ==
    /\ Awaited(i, "check")
    /\ RepStep(Finished(rep, i, Verdict("api_error")))

\* report(ip, categories, comment) up to its return or to the await
ReportStart(ip) ==
    /\ Len(rep.calls) < MaxRepCalls
    /\ RepStep(
         IF ~rep.apiKey
         THEN Returned(rep, "report", ip,
                       [success |-> FALSE, error |-> "No API key configured"])
         ELSE IF isPrivateIp(ip)
         THEN Returned(rep, "report", ip,
                       [success |-> FALSE, error |-> "Cannot report private IP"])
         ELSE InFlight(rep, "report", ip))

\* report after the await: the provider accepted or refused the report
ReportFinish(i, ok) ==
    /\ Awaited(i, "report")
    /\ RepStep(Finished([rep EXCEPT !.stats.reportsSent = IF ok THEN @ + 1 ELSE @],
                        i, [success |-> ok]))

RepTickMs == 12 * 3600000

\* the instants followed: one day, so that the daily reset happens once
RepHorizon == StartNow + DayMs

\* time passes
RepTick ==
    /\ now < RepHorizon
    /\ now' = now + RepTickMs
    /\ UNCHANGED <<records, hist, last, configVars, listVars, extractVars,
                   proxyVars, otherVars>>

InitRep ==
    /\ TrackerIdle /\ ListsIdle /\ trustProxy = TRUE /\ ExtractIdle /\ ProxyIdle
    /\ IoIdle /\ BotIdle /\ PipeIdle /\ AdminIdle /\ RelayIdle /\ StopIdle
    /\ \E apiKey \in BOOLEAN, quota \in Quotas, size \in CacheSizes,
          allow \in {{}, {<<"1", ".", "2", ".", "3", ".", "4">>}} :
          rep = NewReputation(apiKey, quota, size, allow)

NextRep ==
    \/ \E ip \in RepAddresses : CheckStart(ip)
    \/ \E i \in 1..MaxRepCalls : \E data \in ProviderAnswers : LookupResolve(i, data)
    \/ \E i \in 1..MaxRepCalls : LookupReject(i)
    \/ \E ip \in ReportAddresses : ReportStart(ip)
    \/ \E i \in 1..MaxRepCalls : \E ok \in BOOLEAN : ReportFinish(i, ok)
    \/ RepTick

SpecRep == InitRep /\ [][NextRep]_vars

-----------------------------------------------------------------------------
(* Claims about the reputation engine *)

HexDigitValue(c) ==
    CASE c \in Digits -> DigitValue(c)
      [] c \in {"a", "A"} -> 10 [] c \in {"b", "B"} -> 11
      [] c \in {"c", "C"} -> 12 [] c \in {"d", "D"} -> 13
      [] c \in {"e", "E"} -> 14 [] c \in {"f", "F"} -> 15

RECURSIVE HexNumber(_)
HexNumber(group) ==
    IF group = <<>> THEN 0
    ELSE 16 * HexNumber(SubSeq(group, 1, Len(group) - 1))
         + HexDigitValue(group[Len(group)])

\* the address lies in 10/8, 172.16/12, 192.168/16, 127/8, 169.254/16, ::1,
\* fc00::/7 or fe80::/10
InPrivateRanges(ip) ==
    IF ipv4Regex(ip)
    THEN LET octets == SplitAll(ip, ".")
             a == Number(octets[1])
             b == Number(octets[2])
         IN \/ a = 10
            \/ a = 172 /\ b \in 16..31
            \/ a = 192 /\ b = 168
            \/ a = 127
            \/ a = 169 /\ b = 254
    ELSE \/ ip = <<":", ":", "1">>
         \/ LET group == SplitFirst(ip, ":")
            IN /\ Len(group) = 4
               /\ \A j \in 1..4 : group[j] \in HexDigits
               /\ \/ HexNumber(group) \div 512 = 126
                  \/ HexNumber(group) \div 64 = 1018

\* C19: no check or report of an address in a private, loopback or
\* link-local range sends a request to the reputation provider.
C19_PrivateNeverSent ==
    \A i \in 1..Len(rep.sent) : ~InPrivateRanges(rep.sent[i].ip)

\* a check that begins now for an address that is not private, allow-listed
\* or cached, with an API key, finds the counter at the quota
AtQuota(ip) ==
    /\ ~isPrivateIp(ip)
    /\ ip \notin rep.whitelist
    /\ CacheGet(rep, ip) = Absent
    /\ rep.apiKey
    /\ CheckRateReset(rep).apiCallsToday >= rep.apiRateLimit

\* C20: between two resets of the daily counter no more lookups are sent to
\* the provider than the quota allows, with lookups in flight or failed
\* included; and a check that finds the counter at the quota returns
\* blocked = false, reason rate_limited and sends nothing.
C20_QuotaKept ==
    /\ [](rep.lookupsSinceReset <= rep.apiRateLimit)
    /\ [][\A ip \in RepAddresses :
            (/\ AtQuota(ip)
             /\ Len(rep'.calls) = Len(rep.calls) + 1
             /\ rep'.calls[Len(rep'.calls)].kind = "check"
             /\ rep'.calls[Len(rep'.calls)].ip = ip)
            => /\ rep'.calls[Len(rep'.calls)].phase = "done"
               /\ rep'.calls[Len(rep'.calls)].result = Verdict("rate_limited")
               /\ rep'.sent = rep.sent]_vars

\* a step in which the lookup of call i fails
LookupFails(i) == LookupReject(i)

\* C21: when the lookup of a check fails, the check returns blocked = false
\* with reason api_error, an error counter of the engine goes up, and the
\* cache is left as it was, so that the address is looked up again.
C21_FailureCounted ==
    [][\A i \in 1..MaxRepCalls :
          LookupFails(i) =>
             /\ rep'.calls[i].result = Verdict("api_error")
             /\ rep'.cache = rep.cache
             /\ rep'.stats # rep.stats]_vars

\* a step in which check(ip) finds the record of ip in the cache
CacheHit(ip) ==
    /\ CheckStart(ip)
    /\ ~isPrivateIp(ip)
    /\ ip \notin rep.whitelist
    /\ CacheGet(rep, ip) # Absent

\* C22: a check answered from the cache returns what the lookup that made the
\* record returned (blocked, score, reason, reports, categories, country,
\* isp), with cached = true.
C22_HitEqualsFresh ==
    [][\A ip \in RepAddresses :
          CacheHit(ip) =>
             rep'.calls[Len(rep'.calls)].result =
                [FreshResult(CacheGet(rep, ip)[1]) EXCEPT !.cached = TRUE]]_vars

-----------------------------------------------------------------------------
(* IPReputation: the cache file *)

StoreTickMs == CacheTTL \div 2

\* the instants followed: two lifetimes of a cache record
StoreHorizon == StartNow + 2 * CacheTTL

\* time passes
StoreTick ==
    /\ now < StoreHorizon
    /\ now' = now + StoreTickMs
    /\ UNCHANGED <<records, hist, last, configVars, listVars, extractVars,
                   proxyVars, otherVars>>

\* _saveCache(): what it writes
SavedFile(r) ==
    [cache |-> r.cache, apiCallsToday |-> r.apiCallsToday,
     apiResetTime |-> r.apiResetTime, savedAt |-> now]

\* _saveCache(), as destroy() calls it
SaveCache ==
    /\ rep' = [rep EXCEPT !.file = Some(SavedFile(rep))]
    /\ UNCHANGED <<coreVars, ioVars, botVars, pipeVars, adminVars, relayVars, stopVars>>

\* _cleanupCache(): the expired records go, then _saveCache()
CleanupCache ==
    LET r == [rep EXCEPT !.cache = SelectSeq(@, LAMBDA e : ~Expired(e))]
    IN /\ rep' = [r EXCEPT !.file = Some(SavedFile(r))]
       /\ UNCHANGED <<coreVars, ioVars, botVars, pipeVars, adminVars, relayVars, stopVars>>

\* _loadCache(): the records of the file it keeps
LoadedEntries(saved) == SelectSeq(saved, LAMBDA e : now - e.lastChecked < CacheTTL)

\* _loadCache()
LoadCache(r) ==
    IF r.file = Absent THEN r
    ELSE LET data == r.file[1]
             restores == now < data.apiResetTime
         IN [r EXCEPT !.cache = LoadedEntries(data.cache),
                      !.apiCallsToday = IF restores THEN data.apiCallsToday ELSE @,
                      !.apiResetTime = IF restores THEN data.apiResetTime ELSE @]

\* the process starts again: new IPReputation(options) over the file on disk
Restart ==
    /\ \A i \in 1..Len(rep.calls) : rep.calls[i].phase = "done"
    /\ RepStep(LoadCache(
          [NewReputation(rep.apiKey, rep.apiRateLimit, rep.cacheMaxSize,
                         rep.whitelist)
              EXCEPT !.file = rep.file, !.calls = rep.calls, !.sent = rep.sent,
                     !.lookupsSinceReset = rep.lookupsSinceReset]))

\* the addresses checked while the file is followed
StoreAddresses == {<<"8", ".", "8", ".", "8", ".", "8">>, <<"1", ".", "2", ".", "3", ".", "4">>}

NextRepStore ==
    \/ \E ip \in StoreAddresses : CheckStart(ip)
    \/ \E i \in 1..MaxRepCalls : \E data \in ProviderAnswers : LookupResolve(i, data)
    \/ StoreTick
    \/ SaveCache
    \/ CleanupCache
    \/ Restart

SpecRepStore == InitRep /\ [][NextRepStore]_vars

\* C23: loading a saved cache file into a new engine yields exactly the saved
\* records that are not expired at load time by the rule of the cache lookup
\* (expired only when now - lastChecked > cacheTTL), each with its content
\* unchanged.
C23_RoundTrip ==
    [][(Restart /\ rep.file # Absent) =>
          rep'.cache = SelectSeq(rep.file[1].cache, LAMBDA e : ~Expired(e))]_vars

-----------------------------------------------------------------------------
(* The response written for an upstream answer: Proxy.forward's response
   callback behind the securityHeaders middleware.  A header is its name in
   lower case: the names are compared without case on the wire *)

\* Proxy.removeHeaders
removeHeaders ==
    {"host", "connection", "keep-alive", "proxy-authenticate",
     "proxy-authorization", "te", "trailers", "transfer-encoding", "upgrade"}

\* the headers an upstream may answer with
UpstreamHeaders ==
    SUBSET {"server", "x-powered-by", "content-type", "connection",
            "x-response-time"}

\* the response callback of forward: the upstream's headers, X-Proxy-By and
\* X-Response-Time added, the hop-by-hop ones deleted
responseHeaders(upstream) ==
    (upstream \cup {"x-proxy-by", "x-response-time"}) \ removeHeaders

\* the headers securityHeadersMiddleware sets on every response
securityHeaders ==
    {"x-content-type-options", "x-frame-options", "x-xss-protection",
     "referrer-policy"}

\* the headers set with res.setHeader by the chain before the forwarder runs:
\* requestId, securityHeaders, and rateLimit outside stealth mode
SetHeaders(stealth) ==
    {"x-request-id"} \cup securityHeaders
    \cup (IF stealth THEN {}
          ELSE {"x-ratelimit-limit", "x-ratelimit-remaining", "x-ratelimit-reset"})

\* res.writeHead(statusCode, headers) as securityHeadersMiddleware leaves it:
\* in stealth mode removeHeader drops X-Powered-By and Server from the headers
\* that were set with setHeader, then the original writeHead adds the headers
\* it is passed
writeHead(stealth, set, passed) ==
    (IF stealth THEN set \ {"x-powered-by", "server"} ELSE set) \cup passed

\* an upstream answers a forwarded request: the response callback writes the
\* head of the client's response
RelayResponse(upstream) ==
    /\ Len(relay.written) < MaxRelays
    /\ relay' = [relay EXCEPT !.written =
                    Append(@, [upstream |-> upstream,
                               headers |-> writeHead(relay.stealth,
                                                     SetHeaders(relay.stealth),
                                                     responseHeaders(upstream))])]
    /\ UNCHANGED <<coreVars, ioVars, botVars, pipeVars, adminVars, repVars, stopVars>>

\* the gateway started with STEALTH_MODE set or not
InitRelay ==
    /\ TrackerIdle /\ ListsIdle /\ trustProxy = TRUE /\ ExtractIdle /\ ProxyIdle
    /\ IoIdle /\ BotIdle /\ PipeIdle /\ AdminIdle /\ RepIdle /\ StopIdle
    /\ relay \in {[stealth |-> s, written |-> <<>>] : s \in BOOLEAN}

NextRelay == \E upstream \in UpstreamHeaders : RelayResponse(upstream)

SpecRelay == InitRelay /\ [][NextRelay]_vars

\* the headers that tell the gateway or the server behind it
IdentifyingHeaders == {"x-response-time", "x-proxy-by", "server", "x-powered-by"}

\* C24: in stealth mode no response relayed from an upstream carries
\* x-response-time, the proxy-identification header, server or x-powered-by,
\* whatever headers the upstream sent
C24_StealthHeaders ==
    relay.stealth =>
       \A i \in 1..Len(relay.written) :
          relay.written[i].headers \cap IdentifyingHeaders = {}

-----------------------------------------------------------------------------
(* Refusals and their log lines *)

\* the request was answered 403 by the bot scorer or 429 by the rate limiter
Refused == pipe.phase = "done" /\ pipe.status \in {Some("403"), Some("429")}

\* C25: every refused request (rate-limit overflow, active block, deny-list
\* or bot refusal) produces exactly one refusal log line, and the client key
\* in that line is masked: an IPv4 key shows only its first two octets
C25_OneMaskedLine ==
    Refused =>
       /\ Len(pipe.log) = 1
       /\ pipe.log[1].ip = maskIp(Characters(getKey(pipe.req)))

-----------------------------------------------------------------------------
(* The list mutators in pairs *)

\* rmOp(ip) has just been made directly after addOp(ip)
PairDone(addOp, rmOp) ==
    /\ last.op = rmOp
    /\ last.prev.op = addOp
    /\ last.prev.ip = last.ip

\* the lists as they were before the pair
BeforePair == last.prev.lists

\* C26 as stated: addToWhitelist(ip) followed by removeFromWhitelist(ip)
\* leaves the allow-list equal to its state before the pair, and
\* addToBlacklist(ip) followed by removeFromBlacklist(ip) leaves the deny-list
\* equal to its state before the pair, whatever the lists held before
C26_Original ==
    /\ PairDone("addToWhitelist", "removeFromWhitelist") =>
          whitelist = BeforePair.whitelist
    /\ PairDone("addToBlacklist", "removeFromBlacklist") =>
          blacklist = BeforePair.blacklist

\* C26: the pair leaves the list as it was before the pair without ip, which
\* is its prior state exactly when ip was not on that list before the pair
C26_RoundTrip ==
    /\ PairDone("addToWhitelist", "removeFromWhitelist") =>
          /\ whitelist = BeforePair.whitelist \ {last.ip}
          /\ (whitelist = BeforePair.whitelist)
                = (last.ip \notin BeforePair.whitelist)
    /\ PairDone("addToBlacklist", "removeFromBlacklist") =>
          /\ blacklist = BeforePair.blacklist \ {last.ip}
          /\ (blacklist = BeforePair.blacklist)
                = (last.ip \notin BeforePair.blacklist)

\* removeFromWhitelist(ip) has followed addToWhitelist(ip), from an allow-list
\* that held another address and not ip
C26_Witness ==
    /\ PairDone("addToWhitelist", "removeFromWhitelist")
    /\ last.ip \notin BeforePair.whitelist
    /\ BeforePair.whitelist # {}

-----------------------------------------------------------------------------
(* IpTracker under track, block, unblock and the janitor, for one key *)

\* the key the operations are made on
OpsKeys == {<<"1.2.3.4">>}

\* block() of the one key, once more than MaxBlocks: a key that is blocked
\* can be blocked again
OpsBlock(ip, durationMs) == TotalBlocks <= MaxBlocks /\ Block(ip, durationMs)

\* new IpTracker({maxRequests}) with the smallest window and block duration
InitTrackerOps ==
    /\ now = StartNow
    /\ windowMs = MinWindowMs
    /\ maxRequests \in {MinMaxRequests, MinMaxRequests + 1}
    /\ blockDurationMs = MinBlockDurationMs
    /\ records = <<>>
    /\ hist = [k \in Keys |-> <<>>]
    /\ last = NoLast("init")
    /\ ListsIdle /\ trustProxy = TRUE
    /\ ExtractIdle /\ ProxyIdle /\ OtherIdle

\* the clock runs for one window, in which a block of the smallest duration
\* ends as well
OpsTick == Advance(MinWindowMs \div TickMs)

NextTrackerOps ==
    \/ OpsTick
    \/ Cleanup
    \/ \E ip \in OpsKeys : Track(ip)
    \/ \E ip \in OpsKeys : \E d \in BlockArgs : OpsBlock(ip, d)
    \/ \E ip \in OpsKeys : Unblock(ip)

SpecTrackerOps == InitTrackerOps /\ [][NextTrackerOps]_vars

\* the timestamps of a record that lie in the window ending at t
CountInWindow(rec, t) ==
    Cardinality({i \in 1..Len(rec.requests) : rec.requests[i] > t - windowMs})

\* C27: a track call that returns allowed has remaining in [0, max_requests),
\* equal to max_requests minus the number of timestamps in the window after
\* the append, and a track call that returns blocked has remaining = 0
C27_Remaining ==
    last.op = "track" =>
       IF last.res.allowed
       THEN /\ last.res.remaining \in 0..(maxRequests - 1)
            /\ last.res.remaining
                  = maxRequests - CountInWindow(records[last.ip], now)
       ELSE last.res.blocked /\ last.res.remaining = 0

\* an allowed track call that found an older timestamp outside the window
\* and one inside it
C27_Witness ==
    /\ last.op = "track" /\ last.res.allowed /\ last.res.remaining = 0
    /\ last.had
    /\ Len(last.pre.requests) > CountInWindow(last.pre, now)
    /\ CountInWindow(last.pre, now) = 1

\* IpTracker.getStats(ip): null for a key without a record
getStats(ip) ==
    IF ~HasRecord(ip) THEN Absent
    ELSE Some([recentRequests |-> CountInWindow(records[ip], now),
               totalRequests |-> records[ip].totalRequests,
               totalBlocks |-> records[ip].totalBlocks,
               blocked |-> StillBlocked(records[ip], now),
               blockedUntil |-> IF records[ip].blocked
                                THEN Some(records[ip].blockedUntil) ELSE Absent])

\* C28: for every key, the total_requests reported by successive track and
\* stats calls never decreases, in any interleaving of track, block, unblock
\* and janitor runs
C28_TotalRequestsMonotone ==
    \A k \in Keys :
       /\ \A i, j \in 1..Len(hist[k]) :
             i <= j => hist[k][i].res.totalRequests <= hist[k][j].res.totalRequests
       /\ (hist[k] # <<>> /\ getStats(k) # Absent) =>
             hist[k][Len(hist[k])].res.totalRequests <= getStats(k)[1].totalRequests

\* IpTracker.isBlocked(ip)
isBlocked(ip) == HasRecord(ip) /\ StillBlocked(records[ip], now)

\* C29: for every key, total_blocks increases by exactly 1 on each transition
\* of the key from unblocked to blocked, whether the transition is caused by
\* rate-limit overflow in track or by block()
C29_BlockCounted ==
    [][\A k \in Keys :
          (~isBlocked(k) /\ isBlocked(k)') =>
             getRecord(k)'.totalBlocks = getRecord(k).totalBlocks + 1]_vars

\* a key that was blocked once and released goes over the limit in track: its
\* second transition to blocked
C29_Witness ==
    /\ last.op = "track" /\ last.res.reason = "rate_limit_exceeded"
    /\ ~StillBlocked(last.pre, now)
    /\ last.pre.totalBlocks = 1
    /\ isBlocked(last.ip)
    /\ records[last.ip].totalBlocks = 2

\* C30: in every reachable state and for every key, the record's timestamps
\* sequence has length at most max_requests + 1, after any sequence of track,
\* block, unblock and janitor operations
C30_TimestampsBounded ==
    \A k \in DOMAIN records : Len(records[k].requests) <= maxRequests + 1

-----------------------------------------------------------------------------
(* The janitor and the frame of track *)

\* the record has a timestamp newer than now - window
Recent(rec) == \E i \in 1..Len(rec.requests) : rec.requests[i] > now - windowMs

\* the record is blocked and its block has not ended
ActiveBlock(rec) == rec.blocked /\ now < rec.blockedUntil

\* C31: a janitor run deletes exactly the records that have no timestamp newer
\* than now - window and no active block; it never deletes a currently blocked
\* record and does not modify any record it keeps
C31_JanitorExact ==
    [][Cleanup =>
          /\ DOMAIN records' =
                {k \in DOMAIN records : Recent(records[k]) \/ ActiveBlock(records[k])}
          /\ \A k \in DOMAIN records' : records'[k] = records[k]
          /\ \A k \in DOMAIN records :
                ActiveBlock(records[k]) => k \in DOMAIN records']_vars

\* the janitor has run on a key that block() had blocked and that has no
\* timestamp in the window: the record is kept
C31_Witness ==
    /\ last.op = "cleanup"
    /\ \E k \in DOMAIN records :
          /\ ActiveBlock(records[k])
          /\ ~Recent(records[k])
          /\ records[k].totalBlocks = 1

\* the reasons of a check that ends before the tracker
BypassReasons == {"disabled", "skipped", "whitelisted", "blacklisted"}

\* C32: a check that ends with reason disabled, skipped, whitelisted or
\* blacklisted creates no tracker record and changes none; an allow-listed key
\* is allowed however many requests it makes
C32_BypassLeavesTracker ==
    [][(last'.op = "check" /\ last'.res.reason \in BypassReasons) =>
          /\ records' = records
          /\ last'.res.reason # "blacklisted" => last'.res.allowed]_vars

\* an allow-listed key that block() has blocked is checked: it is admitted and
\* its record is as the check found it
C32_Witness ==
    /\ last.op = "check" /\ last.res.reason = "whitelisted" /\ last.res.allowed
    /\ last.had /\ StillBlocked(last.pre, now)
    /\ records[last.ip] = last.pre

\* C33: a track(key) call made while the key is blocked and now < blocked_until
\* returns allowed=false, remaining=0, reset = blocked_until - now,
\* reason=blocked and leaves the record unchanged, so refused requests never
\* extend the block
C33_BlockedTrackFrame ==
    (last.op = "track" /\ last.had /\ last.pre.blocked
                       /\ now < last.pre.blockedUntil) =>
       /\ ~last.res.allowed /\ last.res.blocked
       /\ last.res.remaining = 0
       /\ last.res.resetMs = last.pre.blockedUntil - now
       /\ last.res.reason = "blocked"
       /\ records[last.ip] = last.pre

\* a key blocked by overflow is tracked again after the clock has moved,
\* before the block ends
C33_Witness ==
    /\ last.op = "track" /\ last.had /\ last.res.reason = "blocked"
    /\ last.pre.totalRequests > maxRequests
    /\ last.res.resetMs < blockDurationMs
    /\ records[last.ip].blockedUntil = last.pre.blockedUntil

-----------------------------------------------------------------------------
(* The request patterns of the bot scorer *)

\* the points of the rapid_requests signal of analyze(req), 0 when the signal
\* is not reported
RapidPoints(req) ==
    LET sigs == Signals(req)
        at == {i \in 1..Len(sigs) : sigs[i].reason = <<"rapid_requests">>}
    IN IF at = {} THEN 0 ELSE sigs[CHOOSE i \in at : TRUE].score

\* C34: whenever the bot scorer reports the rapid_requests signal the points
\* it adds are between 15 and 35: 15 when the gap to the key's previous request
\* is strictly positive and under 100 ms, plus 20 when the 10-second window
\* holds more than 20 entries, else plus 10 when it holds more than 10
C34_RapidPoints ==
    [][\A req \in BotRequests :
          (Analyze(req) /\ botEnabled /\ RapidPoints(req) > 0) =>
             LET ip == BotExtractIp(req)
                 gap == now - PatternOf(ip).lastRequest
                 held == Len(patterns'[ip].requests)
             IN /\ RapidPoints(req) \in 15..35
                /\ RapidPoints(req) =
                      (IF gap > 0 /\ gap < 100 THEN 15 ELSE 0)
                      + (IF held > 20 THEN 20 ELSE IF held > 10 THEN 10 ELSE 0)]_vars

-----------------------------------------------------------------------------
(* unblock, the janitor and the other keys *)

\* unblock(k) has just been made on a key that an overflow in track had blocked
UnblockedAfterOverflow(k) ==
    /\ last.op = "unblock" /\ last.ip = k
    /\ last.had /\ StillBlocked(last.pre, now)
    /\ Len(last.pre.requests) > maxRequests

\* C35: after unblock(key) on a key that was blocked by rate-limit overflow,
\* is_blocked(key) is false and the next track(key) returns allowed, even when
\* it arrives within the window in which the overflow happened
C35_UnblockAdmits ==
    /\ [](\A k \in Keys : UnblockedAfterOverflow(k) => ~isBlocked(k))
    /\ [][\A k \in Keys :
             (UnblockedAfterOverflow(k) /\ Track(k)) => last'.res.allowed]_vars

\* the part of the value of track that decides admission
Outcome(res) ==
    [allowed |-> res.allowed, blocked |-> res.blocked,
     remaining |-> res.remaining, resetMs |-> res.resetMs, reason |-> res.reason]

\* the instants from t to the end of the window and of the block that start
\* at t
LaterInstants(t) == {t + i * TickMs : i \in 0..(MinWindowMs \div TickMs + 1)}

RECURSIVE SameOutcomes(_, _, _, _)
\* two records of one key give the same admission outcomes from t on: at every
\* later instant is_blocked and track return the same, and so do the n - 1
\* track calls after it (maxRequests + 1 calls reach an overflow)
SameOutcomes(r1, r2, t, n) ==
    n = 0 \/
    \A u \in LaterInstants(t) :
       /\ StillBlocked(r1, u) = StillBlocked(r2, u)
       /\ Outcome(TrackResult(r1, u)) = Outcome(TrackResult(r2, u))
       /\ SameOutcomes(TrackRecord(r1, u), TrackRecord(r2, u), u, n - 1)

\* C36: running the janitor at any instant never changes the admission outcome
\* of later requests: for every key and every later instant, track returns the
\* same allowed, blocked, remaining, reset and reason, and is_blocked returns
\* the same value, as they would have returned had the janitor not run
C36_JanitorTransparent ==
    [][Cleanup =>
          \A k \in Keys :
             /\ (HasRecord(k) /\ HasRecord(k)') => records'[k] = records[k]
             /\ (HasRecord(k) /\ ~HasRecord(k)') =>
                   SameOutcomes(IpRecord, records[k], now, maxRequests + 1)]_vars

\* the janitor has deleted the record of a key that had been tracked and
\* blocked
C36_Witness ==
    /\ last.op = "cleanup"
    /\ \E k \in Keys :
          /\ ~HasRecord(k)
          /\ \E i \in 1..Len(hist[k]) : hist[k][i].res.reason = "rate_limit_exceeded"

\* the step is a track (reached through check), a block or an unblock made on
\* the key ip
OperationOn(ip) == last'.op \in {"check", "block", "unblock"} /\ last'.ip = ip

\* C37: track, block and unblock on one key never change the record or the
\* block state of any other key, on which its later admission outcomes depend
C37_KeysIsolated ==
    [][\A ip \in Keys : \A k \in Keys \ {ip} :
          OperationOn(ip) =>
             /\ HasRecord(k)' = HasRecord(k)
             /\ getRecord(k)' = getRecord(k)
             /\ isBlocked(k)' = isBlocked(k)
             /\ TrackResult(getRecord(k)', now) = TrackResult(getRecord(k), now)]_vars

\* a key that block() had blocked is unblocked while another key is blocked
\* by overflow
C37_Witness ==
    /\ last.op = "unblock" /\ last.had /\ last.pre.blocked
    /\ \E k \in Keys \ {last.ip} :
          isBlocked(k) /\ Len(records[k].requests) > maxRequests

-----------------------------------------------------------------------------
(* The key of the bot scorer and the key of the rate limiter *)

\* C38: with trust_proxy=false every policy stage keys the client by the
\* socket peer address: the bot scorer scores the request and keeps its
\* pattern record under the key the rate limiter uses, whatever
\* x-forwarded-for or x-real-ip headers the client supplied
C38_SameKey ==
    (~trustProxy /\ botEnabled /\ botLast.op = "analyze") =>
       /\ botLast.res.ip = extractIp(botLast.req, trustProxy)
       /\ botLast.res.ip = botLast.req.remoteAddress[1]
       /\ botLast.res.ip \in DOMAIN patterns

-----------------------------------------------------------------------------
(* Stopping the discovery loop *)

\* stopAutoRefresh (destroy calls nothing else): the interval is cleared when
\* it is set.  Neither a flag is kept nor a scan is cancelled: a periodic scan
\* whose timer fired before the stop may still be awaiting discoverUpstreams
\* (scanning), and the promise of the initial scan stays pending
StopAutoRefresh(scanning) ==
    /\ alive /\ ~refreshLoop.stopped
    /\ refreshTimer' = FALSE
    /\ refreshLoop' = [stopped |-> TRUE, scanning |-> refreshTimer /\ scanning]
    /\ UNCHANGED <<now, records, hist, last, configVars, listVars, extractVars,
                   manualHosts, upstreams, currentUpstreams, targets,
                   currentTarget, initialScan, periodicScans, alive, published,
                   lastScan, fwdLog, lastReady, ioVars, botVars, pipeVars,
                   adminVars, repVars, relayVars>>

\* the periodic scan that was in flight at the stop resumes after its await
\* and runs the callback, inside the try of the interval function
LateScan(result) ==
    /\ alive /\ refreshLoop.scanning
    /\ refreshLoop' = [refreshLoop EXCEPT !.scanning = FALSE]
    /\ ScanFinish(result, TRUE)
    /\ UNCHANGED <<now, records, hist, last, configVars, listVars, extractVars,
                   manualHosts, refreshTimer, initialScan, periodicScans, fwdLog,
                   lastReady, ioVars, botVars, pipeVars, adminVars, repVars,
                   relayVars>>

NextStop ==
    \/ Ready
    \/ \E result \in ScanResults : InitialScan(result)
    \/ \E result \in ScanResults : PeriodicScan(result)
    \/ \E scanning \in BOOLEAN : StopAutoRefresh(scanning)
    \/ \E result \in ScanResults : LateScan(result)

SpecStop == InitProxyOnly /\ [][NextStop]_vars

-----------------------------------------------------------------------------
(* The counter of blocks *)

\* the key goes from not blocked to blocked in this step
BecomesBlocked(k) == ~isBlocked(k) /\ isBlocked(k)'

\* C40: total_blocks of a key changes only when the key moves from not
\* blocked to blocked, and then by one: a record starts with the count of the
\* step that created it, and block() on a key that is actively blocked leaves
\* the counter as it was, so that the counter is the number of such moves
\* since the record was created
C40_BlocksCountTransitions ==
    [][\A k \in OpsKeys :
          /\ (HasRecord(k) /\ HasRecord(k)') =>
                records'[k].totalBlocks =
                   records[k].totalBlocks + (IF BecomesBlocked(k) THEN 1 ELSE 0)
          /\ (~HasRecord(k) /\ HasRecord(k)') =>
                records'[k].totalBlocks = (IF BecomesBlocked(k) THEN 1 ELSE 0)]_vars

====
